---- MODULE Spec2Model ----
(***************************************************************************)
(* HealthLens backend: the deterministic pipeline between the completion   *)
(* API and the client.                                                     *)
(*   utils/labs.js   VALID_RANGES, normalizeCode                           *)
(*   utils/nlp.js    parseRefRange, computeMarkerStatus,                   *)
(*                   applyClinicalWeighting                                *)
(*   controllers/labsController.js   parse    (POST /labs/parse)           *)
(*   controllers/nlpController.js    summary  (POST /nlp/summary)          *)
(*                                                                         *)
(* Text is a sequence of one-character strings.  A JavaScript number is    *)
(* NaN, Infinity or an exact decimal n / 10^d kept in lowest form, so that *)
(* 0.2, 0.01 and 6.5 are exact and equal numbers are equal records.  The   *)
(* confidence average, where rounding decides, is computed in binary64.    *)
(***************************************************************************)
EXTENDS Integers, Sequences, FiniteSets

VARIABLES
    fn,         \* pure-function runs: the function under evaluation
    arg,        \* pure-function runs: its argument
    res,        \* pure-function runs: its result (undefined before the call)
    apiKey,     \* OPENAI_API_KEY is set in the process environment
    pc,         \* the request handler's position
    endpoint,   \* the route of the request being handled
    rid,        \* req.rid, the id the middleware gave the request
    body,       \* req.body of the request being handled
    data,       \* what the completion call settled with
    locals,     \* the handler's local values that live across the await
    prompt,     \* what the handler sent to the completion API
    calls,      \* completion calls issued for the request being handled
    hits,       \* requests the rate limiter has counted in the current window
    disk,       \* tmp_uploads: the uploaded files and the directories of page images
    jobs,       \* the /ocr/extract requests in progress, each with its handler's state
    resp        \* the HTTP response sent for the request being handled

vars == <<fn, arg, res, apiKey, pc, endpoint, rid, body, data, locals, prompt, calls,
          hits, disk, jobs, resp>>

-----------------------------------------------------------------------------
(* Bounds *)

MaxNameFrags == 2      \* fragments concatenated into a marker name
MaxRefFrags  == 3      \* fragments concatenated into a reference-range text
MaxAiMarkers == 2      \* entries of the marker list the completion returns
MaxMarkers   == 3      \* entries of the markers field of a /nlp/summary body
MaxFiles     == 2      \* files of a /ocr/extract request

-----------------------------------------------------------------------------
(* Characters and text *)

Digit == {"0", "1", "2", "3", "4", "5", "6", "7", "8", "9"}

DigitVal(c) ==
    CASE c = "0" -> 0 [] c = "1" -> 1 [] c = "2" -> 2 [] c = "3" -> 3
      [] c = "4" -> 4 [] c = "5" -> 5 [] c = "6" -> 6 [] c = "7" -> 7
      [] c = "8" -> 8 [] c = "9" -> 9

DigitChar(k) ==
    CASE k = 0 -> "0" [] k = 1 -> "1" [] k = 2 -> "2" [] k = 3 -> "3"
      [] k = 4 -> "4" [] k = 5 -> "5" [] k = 6 -> "6" [] k = 7 -> "7"
      [] k = 8 -> "8" [] k = 9 -> "9"

\* String.prototype.toLowerCase on one character
LowerChar(c) ==
    CASE c = "A" -> "a" [] c = "B" -> "b" [] c = "C" -> "c" [] c = "D" -> "d"
      [] c = "E" -> "e" [] c = "F" -> "f" [] c = "G" -> "g" [] c = "H" -> "h"
      [] c = "I" -> "i" [] c = "J" -> "j" [] c = "K" -> "k" [] c = "L" -> "l"
      [] c = "M" -> "m" [] c = "N" -> "n" [] c = "O" -> "o" [] c = "P" -> "p"
      [] c = "Q" -> "q" [] c = "R" -> "r" [] c = "S" -> "s" [] c = "T" -> "t"
      [] c = "U" -> "u" [] c = "V" -> "v" [] c = "W" -> "w" [] c = "X" -> "x"
      [] c = "Y" -> "y" [] c = "Z" -> "z"
      [] OTHER -> c

toLowerCase(s) == [i \in 1..Len(s) |-> LowerChar(s[i])]

\* String.prototype.includes
includes(s, sub) ==
    \E i \in 0..(Len(s) - Len(sub)) : SubSeq(s, i + 1, i + Len(sub)) = sub

\* /\s/ on one character
IsSpace(c) == c \in {" ", "\t", "\n"}

RECURSIVE StripSpace(_)
\* s.replace(/\s/g, '')
StripSpace(s) ==
    IF s = <<>> THEN <<>>
    ELSE IF IsSpace(Head(s)) THEN StripSpace(Tail(s))
    ELSE <<Head(s)>> \o StripSpace(Tail(s))

RECURSIVE Trim(_)
\* the white space JavaScript drops at both ends before converting text to a number
Trim(s) ==
    IF s = <<>> THEN s
    ELSE IF IsSpace(Head(s)) THEN Trim(Tail(s))
    ELSE IF IsSpace(s[Len(s)]) THEN Trim(SubSeq(s, 1, Len(s) - 1))
    ELSE s

RECURSIVE Concat(_)
Concat(ss) == IF ss = <<>> THEN <<>> ELSE Head(ss) \o Concat(Tail(ss))

\* every sequence over S of length 0..n
SeqUpTo(S, n) == UNION {[1..k -> S] : k \in 0..n}

-----------------------------------------------------------------------------
(* JavaScript values *)

JUndef == [t |-> "undefined"]
JNull  == [t |-> "null"]
NaN    == [t |-> "nan"]
Inf    == [t |-> "inf"]
JBool(b) == [t |-> "bool", b |-> b]
JStr(s)  == [t |-> "str", s |-> s]

RECURSIVE Pow10(_)
Pow10(k) == IF k = 0 THEN 1 ELSE 10 * Pow10(k - 1)

RECURSIVE Num(_, _)
\* the number n / 10^d in lowest form
Num(n, d) ==
    IF d > 0 /\ n % 10 = 0 THEN Num(n \div 10, d - 1)
    ELSE [t |-> "num", n |-> n, d |-> d]

Whole(n) == Num(n, 0)


\* the numerator of a over the common denominator of a and b
Scaled(a, b) == IF a.d >= b.d THEN a.n ELSE a.n * Pow10(b.d - a.d)

\* a < b on numbers (false when either is NaN)
Lt(a, b) ==
    CASE a.t = "nan" \/ b.t = "nan" -> FALSE
      [] a.t = "inf" -> FALSE
      [] b.t = "inf" -> TRUE
      [] OTHER -> Scaled(a, b) < Scaled(b, a)

Gt(a, b) == Lt(b, a)

\* a >= b on numbers (false when either is NaN)
Ge(a, b) ==
    CASE a.t = "nan" \/ b.t = "nan" -> FALSE
      [] a.t = "inf" -> TRUE
      [] b.t = "inf" -> FALSE
      [] OTHER -> Scaled(a, b) >= Scaled(b, a)

\* truthiness, as `x || y` and `!x` read it
Truthy(v) ==
    CASE v.t = "undefined" -> FALSE
      [] v.t = "null" -> FALSE
      [] v.t = "nan" -> FALSE
      [] v.t = "bool" -> v.b
      [] v.t = "str" -> v.s # <<>>
      [] v.t = "num" -> v.n # 0
      [] OTHER -> TRUE

\* x || y
OrElse(x, y) == IF Truthy(x) THEN x ELSE y

\* x == null
IsNullish(v) == v.t \in {"undefined", "null"}

IsDigits(s) == Len(s) >= 1 /\ \A i \in 1..Len(s) : s[i] \in Digit

RECURSIVE DigitsVal(_)
DigitsVal(s) ==
    IF s = <<>> THEN 0
    ELSE 10 * DigitsVal(SubSeq(s, 1, Len(s) - 1)) + DigitVal(s[Len(s)])

\* digits, digits., digits.digits or .digits
IsDecimalLiteral(s) ==
    \/ IsDigits(s)
    \/ \E i \in 1..Len(s) :
          /\ s[i] = "."
          /\ \A j \in 1..Len(s) : j # i => s[j] \in Digit
          /\ Len(s) >= 2

\* the value of a decimal literal
DecimalVal(s) ==
    IF IsDigits(s) THEN Whole(DigitsVal(s))
    ELSE LET i == CHOOSE j \in 1..Len(s) : s[j] = "."
             whole == SubSeq(s, 1, i - 1)
             frac  == SubSeq(s, i + 1, Len(s))
         IN  Num(DigitsVal(whole) * Pow10(Len(frac)) + DigitsVal(frac), Len(frac))

Negate(v) == IF v.t = "num" THEN Num(0 - v.n, v.d) ELSE v

\* the value of the longest prefix of t, among the lengths ks, that is a decimal literal
LongestDecimal(t, ks) ==
    IF ks = {} THEN NaN
    ELSE DecimalVal(SubSeq(t, 1, CHOOSE k \in ks : \A j \in ks : j <= k))

DecimalPrefix(t) ==
    LongestDecimal(t, {k \in 1..Len(t) : IsDecimalLiteral(SubSeq(t, 1, k))})

\* parseFloat: the longest leading decimal literal, NaN when there is none
\* (exact for text without sign and exponent notation)
parseFloat(s) == DecimalPrefix(Trim(s))

\* the trimmed text t as a number
SignedDecimal(t) ==
    IF t = <<>> THEN Whole(0)
    ELSE IF t[1] = "-"
         THEN IF IsDecimalLiteral(Tail(t)) THEN Negate(DecimalVal(Tail(t))) ELSE NaN
    ELSE IF t[1] = "+"
         THEN IF IsDecimalLiteral(Tail(t)) THEN DecimalVal(Tail(t)) ELSE NaN
    ELSE IF IsDecimalLiteral(t) THEN DecimalVal(t)
    ELSE NaN

\* Number(text): the whole trimmed text must be a signed decimal literal; empty
\* text is 0 (exact for text without exponent, hex, octal or binary notation and
\* other than "Infinity")
StringToNumber(s) == SignedDecimal(Trim(s))

\* Number(v)
ToNumber(v) ==
    CASE v.t = "undefined" -> NaN
      [] v.t = "null" -> Whole(0)
      [] v.t = "bool" -> IF v.b THEN Whole(1) ELSE Whole(0)
      [] v.t = "str" -> StringToNumber(v.s)
      [] OTHER -> v

RECURSIVE NatToString(_)
NatToString(n) ==
    IF n < 10 THEN <<DigitChar(n)>>
    ELSE NatToString(n \div 10) \o <<DigitChar(n % 10)>>

RECURSIVE PadLeft(_, _)
PadLeft(s, k) == IF Len(s) >= k THEN s ELSE PadLeft(<<"0">> \o s, k)

\* String(v)
StringOf(v) ==
    CASE v.t = "str" -> v.s
      [] v.t = "undefined" -> <<"u", "n", "d", "e", "f", "i", "n", "e", "d">>
      [] v.t = "null" -> <<"n", "u", "l", "l">>
      [] v.t = "bool" -> IF v.b THEN <<"t", "r", "u", "e">>
                         ELSE <<"f", "a", "l", "s", "e">>
      [] v.t = "nan" -> <<"N", "a", "N">>
      [] v.t = "inf" -> <<"I", "n", "f", "i", "n", "i", "t", "y">>
      [] v.t = "num" ->
           LET a     == IF v.n < 0 THEN 0 - v.n ELSE v.n
               sign  == IF v.n < 0 THEN <<"-">> ELSE <<>>
               whole == NatToString(a \div Pow10(v.d))
               frac  == PadLeft(NatToString(a % Pow10(v.d)), v.d)
           IN  IF v.d = 0 THEN sign \o whole
               ELSE sign \o whole \o <<".">> \o frac

-----------------------------------------------------------------------------
(* utils/labs.js *)

Codes == {"HBA1C", "GLU", "CHOL", "LDL", "HDL", "TG", "CREAT", "TSH", "HB", "WBC", "PLT"}

\* the result of normalizeCode when no rule matches
NoCode == "null"

\* code -> <<min, max>>
VALID_RANGES ==
    [c \in Codes |->
        CASE c = "HBA1C" -> <<Whole(3), Whole(20)>>
          [] c = "GLU"   -> <<Whole(40), Whole(600)>>
          [] c = "CHOL"  -> <<Whole(80), Whole(400)>>
          [] c = "LDL"   -> <<Whole(20), Whole(250)>>
          [] c = "HDL"   -> <<Whole(20), Whole(120)>>
          [] c = "TG"    -> <<Whole(40), Whole(800)>>
          [] c = "CREAT" -> <<Num(2, 1), Whole(10)>>
          [] c = "TSH"   -> <<Num(1, 2), Whole(100)>>
          [] c = "HB"    -> <<Whole(4), Whole(20)>>
          [] c = "WBC"   -> <<Whole(2000), Whole(30000)>>
          [] c = "PLT"   -> <<Whole(20000), Whole(800000)>>]

\* faulty variant of normalizeCode: the "hb" rule is tried before the "hba1c" rule
normalizeCode_hbFirst(name) ==
    LET n == toLowerCase(name)
    IN  IF includes(n, <<"h", "b">>) THEN "HB"
        ELSE IF includes(n, <<"h", "b", "a", "1", "c">>) THEN "HBA1C"
        ELSE IF \/ includes(n, <<"f", "a", "s", "t", "i", "n", "g">>)
                \/ includes(n, <<"g", "l", "u", "c", "o", "s", "e">>) THEN "GLU"
        ELSE IF includes(n, <<"l", "d", "l">>) THEN "LDL"
        ELSE IF includes(n, <<"h", "d", "l">>) THEN "HDL"
        ELSE IF includes(n, <<"t", "r", "i", "g">>) THEN "TG"
        ELSE IF includes(n, <<"c", "h", "o", "l">>) THEN "CHOL"
        ELSE IF includes(n, <<"c", "r", "e", "a", "t">>) THEN "CREAT"
        ELSE IF includes(n, <<"t", "s", "h">>) THEN "TSH"
        ELSE IF includes(n, <<"w", "b", "c">>) THEN "WBC"
        ELSE IF includes(n, <<"p", "l", "a", "t", "e">>) THEN "PLT"
        ELSE NoCode

normalizeCode(name) ==
    LET n == toLowerCase(name)
    IN  IF includes(n, <<"h", "b", "a", "1", "c">>) THEN "HBA1C"
        ELSE IF \/ includes(n, <<"f", "a", "s", "t", "i", "n", "g">>)
                \/ includes(n, <<"g", "l", "u", "c", "o", "s", "e">>) THEN "GLU"
        ELSE IF includes(n, <<"l", "d", "l">>) THEN "LDL"
        ELSE IF includes(n, <<"h", "d", "l">>) THEN "HDL"
        ELSE IF includes(n, <<"t", "r", "i", "g">>) THEN "TG"
        ELSE IF includes(n, <<"c", "h", "o", "l">>) THEN "CHOL"
        ELSE IF includes(n, <<"c", "r", "e", "a", "t">>) THEN "CREAT"
        ELSE IF includes(n, <<"t", "s", "h">>) THEN "TSH"
        ELSE IF includes(n, <<"h", "b">>) THEN "HB"
        ELSE IF includes(n, <<"w", "b", "c">>) THEN "WBC"
        ELSE IF includes(n, <<"p", "l", "a", "t", "e">>) THEN "PLT"
        ELSE NoCode

-----------------------------------------------------------------------------
(* utils/nlp.js *)

\* /^\d+(\.\d+)?$/
IsRefNumber(s) ==
    \/ IsDigits(s)
    \/ \E i \in 1..Len(s) :
          /\ s[i] = "."
          /\ IsDigits(SubSeq(s, 1, i - 1))
          /\ IsDigits(SubSeq(s, i + 1, Len(s)))

\* the en dash U+2013, one character of a text
EnDash == "u2013"

\* [-\u2013]
IsDash(c) == c \in {"-", EnDash}

\* /^(\d+(\.\d+)?)[-\u2013](\d+(\.\d+)?)$/
IsDashRange(s) ==
    \E i \in 1..Len(s) :
        /\ IsDash(s[i])
        /\ IsRefNumber(SubSeq(s, 1, i - 1))
        /\ IsRefNumber(SubSeq(s, i + 1, Len(s)))

RECURSIVE SplitDash(_)
\* s.split(/[-\u2013]/)
SplitDash(s) ==
    IF \A i \in 1..Len(s) : ~IsDash(s[i]) THEN <<s>>
    ELSE LET i == CHOOSE j \in 1..Len(s) :
                      IsDash(s[j]) /\ \A k \in 1..(j - 1) : ~IsDash(s[k])
         IN  <<SubSeq(s, 1, i - 1)>> \o SplitDash(SubSeq(s, i + 1, Len(s)))

\* faulty variant of ToSplits: the pattern without its i flag
ToSplits_caseSensitive(s) ==
    {i \in 1..(Len(s) - 1) :
        /\ s[i] = "t"
        /\ s[i + 1] = "o"
        /\ IsRefNumber(SubSeq(s, 1, i - 1))
        /\ IsRefNumber(SubSeq(s, i + 2, Len(s)))}

\* /^(\d+(\.\d+)?)to(\d+(\.\d+)?)$/i : the places where the "to" may stand
ToSplits(s) ==
    {i \in 1..(Len(s) - 1) :
        /\ LowerChar(s[i]) = "t"
        /\ LowerChar(s[i + 1]) = "o"
        /\ IsRefNumber(SubSeq(s, 1, i - 1))
        /\ IsRefNumber(SubSeq(s, i + 2, Len(s)))}

\* txt.replace(c, ''): the first occurrence only
RemoveFirst(s, c) ==
    IF \A i \in 1..Len(s) : s[i] # c THEN s
    ELSE LET i == CHOOSE j \in 1..Len(s) : s[j] = c /\ \A k \in 1..(j - 1) : s[k] # c
         IN  SubSeq(s, 1, i - 1) \o SubSeq(s, i + 1, Len(s))

Bounds(lo, hi) == [low |-> lo, high |-> hi]

\* nlp.js:9-17 on the text without its white space
parseRefText(txt) ==
    IF IsDashRange(txt)
    THEN Bounds(parseFloat(SplitDash(txt)[1]), parseFloat(SplitDash(txt)[2]))
    ELSE IF txt # <<>> /\ txt[1] = "<" /\ IsRefNumber(Tail(txt))
    THEN Bounds(JNull, parseFloat(RemoveFirst(txt, "<")))
    ELSE IF txt # <<>> /\ txt[1] = ">" /\ IsRefNumber(Tail(txt))
    THEN Bounds(parseFloat(RemoveFirst(txt, ">")), JNull)
    ELSE IF ToSplits(txt) # {}
    THEN Bounds(parseFloat(SubSeq(txt, 1, (CHOOSE j \in ToSplits(txt) : TRUE) - 1)),
                parseFloat(SubSeq(txt, (CHOOSE j \in ToSplits(txt) : TRUE) + 2, Len(txt))))
    ELSE Bounds(JNull, JNull)

parseRefRange(ref) ==
    IF ~Truthy(ref) \/ ref.t # "str" THEN Bounds(JNull, JNull)
    ELSE parseRefText(StripSpace(ref.s))

Status(s, c) == [status |-> s, confidence |-> c]

\* faulty variant of statusOf: the comparisons with the bounds are not strict
statusOf_inclusive(b, v) ==
    IF b.low = JNull /\ b.high = JNull THEN Status("unknown", "medium")
    ELSE IF v = NaN THEN Status("unknown", "low")
    ELSE IF b.high # JNull /\ Ge(v, b.high) THEN Status("high", "high")
    ELSE IF b.low # JNull /\ Ge(b.low, v) THEN Status("low", "high")
    ELSE Status("normal", "high")

\* nlp.js:24-31 with the parsed bounds b and v = Number(m.value)
statusOf(b, v) ==
    IF b.low = JNull /\ b.high = JNull THEN Status("unknown", "medium")
    ELSE IF v = NaN THEN Status("unknown", "low")
    ELSE IF b.high # JNull /\ Gt(v, b.high) THEN Status("high", "high")
    ELSE IF b.low # JNull /\ Lt(v, b.low) THEN Status("low", "high")
    ELSE Status("normal", "high")

computeMarkerStatus(m) ==
    IF IsNullish(m.value) \/ IsNullish(m.refRange) THEN Status("unknown", "low")
    ELSE statusOf(parseRefRange(JStr(StringOf(m.refRange))), ToNumber(m.value))

\* m.value >= c, for a number c
ValueGe(m, c) == Ge(ToNumber(m.value), c)

Risk(sev, urg, days, imm) ==
    [severity |-> sev, urgency |-> urg, recommendedRecheckDays |-> days,
     immediateAttention |-> imm]

\* nlp.js:74-78
uiOf(severity) ==
    CASE severity = "mild"        -> [color |-> "#F59E0B", icon |-> "alert-circle"]
      [] severity = "moderate"    -> [color |-> "#F97316", icon |-> "alert-triangle"]
      [] severity = "significant" -> [color |-> "#EF4444", icon |-> "alert-octagon"]
      [] OTHER                    -> [color |-> "#9CA3AF", icon |-> "check-circle"]

\* severity, urgency and recheck days overwritten; immediateAttention kept
Set3(r, sev, urg, days) ==
    [r EXCEPT !.severity = sev, !.urgency = urg, !.recommendedRecheckDays = days]

\* nlp.js:36-41
baseline(m) ==
    IF m.status \in {"high", "low"} THEN Risk("mild", "routine", 180, FALSE)
    ELSE Risk("none", "routine", 180, FALSE)

\* nlp.js:45
hba1cLow(m, r) ==
    IF m.code = "HBA1C" /\ ValueGe(m, Num(65, 1)) THEN Set3(r, "moderate", "soon", 90) ELSE r

\* nlp.js:46
hba1cHigh(m, r) ==
    IF m.code = "HBA1C" /\ ValueGe(m, Whole(8))
    THEN Risk("significant", "prompt", 30, TRUE) ELSE r

\* nlp.js:51
ldlLow(m, r) ==
    IF m.code = "LDL" /\ ValueGe(m, Whole(160)) THEN Set3(r, "moderate", "soon", 90) ELSE r

\* nlp.js:52
ldlHigh(m, r) ==
    IF m.code = "LDL" /\ ValueGe(m, Whole(190))
    THEN Risk("significant", "prompt", 30, TRUE) ELSE r

\* nlp.js:56-58
creatinine(m, r) ==
    IF m.code = "CREAT" /\ m.status = "high"
    THEN Risk("significant", "prompt", 7, TRUE) ELSE r

\* nlp.js:61-65
hemoglobin(m, r) ==
    IF m.code = "HB" /\ m.status = "low" THEN Set3(r, "moderate", "soon", 30) ELSE r

\* faulty variant of wbc: only the statuses high and low count as abnormal
wbc_abnormalOnly(m, r) ==
    IF m.code = "WBC" /\ m.status \in {"high", "low"}
    THEN Set3(r, "moderate", "soon", 30) ELSE r

\* nlp.js:68-72
wbc(m, r) ==
    IF m.code = "WBC" /\ m.status # "normal" THEN Set3(r, "moderate", "soon", 30) ELSE r

\* nlp.js:74-80
withUi(r) ==
    [severity |-> r.severity, urgency |-> r.urgency,
     recommendedRecheckDays |-> r.recommendedRecheckDays,
     immediateAttention |-> r.immediateAttention, ui |-> uiOf(r.severity)]

\* faulty variant of applyClinicalWeighting: the lower threshold of HbA1c and of
\* LDL is applied after the higher one
applyClinicalWeighting_lowLast(m) ==
    withUi(wbc(m, hemoglobin(m, creatinine(m,
        ldlLow(m, ldlHigh(m, hba1cLow(m, hba1cHigh(m, baseline(m)))))))))

\* the assignments run in the order of the source, each overwriting the last
applyClinicalWeighting(m) ==
    withUi(wbc(m, hemoglobin(m, creatinine(m,
        ldlHigh(m, ldlLow(m, hba1cHigh(m, hba1cLow(m, baseline(m)))))))))

-----------------------------------------------------------------------------
(* controllers/labsController.js *)

Throw == [t |-> "throw"]

\* m.f on a value m: a property of an object, undefined on a primitive
\* (m.f on null or undefined throws and is handled by the caller)
Field(m, f) == IF m.t = "obj" /\ f \in DOMAIN m THEN m[f] ELSE JUndef

\* the marker object of labsController.js:64-72
Accepted(m, code, value) ==
    [t |-> "obj", name |-> Field(m, "name"), code |-> code, value |-> value,
     unit |-> OrElse(Field(m, "unit"), JStr(<<>>)),
     refRange |-> OrElse(Field(m, "refRange"), JNull),
     flag |-> JNull, observedAt |-> JNull]

\* faulty variant of validate: no check against VALID_RANGES
validate_noRange(m, code, value) ==
    IF code = NoCode THEN JNull
    ELSE IF value = NaN THEN JNull
    ELSE IF Gt(value, Whole(1900)) /\ Lt(value, Whole(2100)) THEN JNull
    ELSE Accepted(m, code, value)

\* faulty variant of validate: the bounds of VALID_RANGES are excluded
validate_strict(m, code, value) ==
    IF code = NoCode THEN JNull
    ELSE IF value = NaN THEN JNull
    ELSE IF Gt(value, Whole(1900)) /\ Lt(value, Whole(2100)) THEN JNull
    ELSE IF /\ code \in DOMAIN VALID_RANGES
            /\ \/ ~Gt(value, VALID_RANGES[code][1])
               \/ ~Lt(value, VALID_RANGES[code][2])
    THEN JNull
    ELSE Accepted(m, code, value)

\* faulty variant of validate: no year heuristic
validate_noYear(m, code, value) ==
    IF code = NoCode THEN JNull
    ELSE IF value = NaN THEN JNull
    ELSE IF /\ code \in DOMAIN VALID_RANGES
            /\ \/ Lt(value, VALID_RANGES[code][1])
               \/ Gt(value, VALID_RANGES[code][2])
    THEN JNull
    ELSE Accepted(m, code, value)

\* labsController.js:55-73 with code = normalizeCode(name), value = Number(m.value)
validate(m, code, value) ==
    IF code = NoCode THEN JNull
    ELSE IF value = NaN THEN JNull
    ELSE IF Gt(value, Whole(1900)) /\ Lt(value, Whole(2100)) THEN JNull
    ELSE IF /\ code \in DOMAIN VALID_RANGES
            /\ \/ Lt(value, VALID_RANGES[code][1])
               \/ Gt(value, VALID_RANGES[code][2])
    THEN JNull
    ELSE Accepted(m, code, value)

\* labsController.js:54 with name = m.name || "": name.toLowerCase() is a TypeError
\* unless name is text
parseNamed(m, name) ==
    IF name.t # "str" THEN Throw
    ELSE validate(m, normalizeCode(name.s), ToNumber(Field(m, "value")))

\* the callback of markers.map, labsController.js:53-74: the validated marker,
\* null for a dropped entry, Throw when the callback throws a TypeError (m.name on
\* null or undefined is one)
parseMarker(m) ==
    IF IsNullish(m) THEN Throw
    ELSE parseNamed(m, OrElse(Field(m, "name"), JStr(<<>>)))

RECURSIVE FilterBoolean(_)
\* .filter(Boolean) on the mapped list
FilterBoolean(ms) ==
    IF ms = <<>> THEN <<>>
    ELSE IF Truthy(Head(ms)) THEN <<Head(ms)>> \o FilterBoolean(Tail(ms))
    ELSE FilterBoolean(Tail(ms))

RECURSIVE normalizeLocaleDecimalsRec(_)
\* s.replace(/(\d),(\d)/g, '$1.$2'): matches are taken left to right and do not overlap
normalizeLocaleDecimalsRec(s) ==
    IF s = <<>> THEN <<>>
    ELSE IF Len(s) >= 3 /\ s[1] \in Digit /\ s[2] = "," /\ s[3] \in Digit
         THEN <<s[1], ".", s[3]>> \o normalizeLocaleDecimalsRec(SubSeq(s, 4, Len(s)))
    ELSE <<Head(s)>> \o normalizeLocaleDecimalsRec(Tail(s))

\* locale.toLowerCase().startsWith('de')
StartsWithDe(s) == Len(s) >= 2 /\ toLowerCase(SubSeq(s, 1, 2)) = <<"d", "e">>

\* labsController.js:17-24: the clean text, Throw when locale is truthy and no string
normalizeLocaleDecimals(text, locale) ==
    IF ~Truthy(locale) THEN text
    ELSE IF locale.t # "str" THEN Throw
    ELSE IF StartsWithDe(locale.s) THEN JStr(normalizeLocaleDecimalsRec(text.s))
    ELSE text

\* utils/errorResponse.js
errorResponse(r, code, message, status) ==
    [status |-> status,
     body |-> [error |-> [code |-> code, message |-> message], rid |-> r]]

\* res.json(body)
jsonResponse(b) == [status |-> 200, body |-> b]

NoResponse == [status |-> 0]

\* labsController.js:52-81 on the mapped list
parseMapped(mapped) ==
    IF \E i \in 1..Len(mapped) : mapped[i] = Throw THEN Throw
    ELSE IF FilterBoolean(mapped) = <<>> THEN Throw
    ELSE jsonResponse([markers |-> FilterBoolean(mapped)])

\* labsController.js:50-52 with raw = aiJson?.markers || []: raw.map is a TypeError
\* unless raw is an array
parseRaw(raw) ==
    IF raw.t # "arr" THEN Throw
    ELSE parseMapped([i \in 1..Len(raw.items) |-> parseMarker(raw.items[i])])

\* aiJson?.markers
markersOfJson(aiJson) == IF IsNullish(aiJson) THEN JUndef ELSE Field(aiJson, "markers")

\* labsController.js:31-81, the body of the try block once the completion call has
\* returned d: the response, or Throw for the catch block
parseTry(d) ==
    IF d.kind # "content" THEN Throw
    ELSE IF d.content.kind \in {"empty", "nonjson"} THEN Throw
    ELSE parseRaw(OrElse(markersOfJson(d.content.json), [t |-> "arr", items |-> <<>>]))

\* labsController.js:83-86 answering a throw with an empty list of markers
parseCatch_emptyList(r, out) ==
    IF out = Throw
    THEN jsonResponse([markers |-> <<>>])
    ELSE out

\* labsController.js:83-86: the catch block answers for whatever the try block threw
parseCatch(r, out) ==
    IF out = Throw
    THEN errorResponse(r, "PARSE_FAILED", "Unable to extract lab values", 422)
    ELSE out

\* labsController.js:26-86 once the completion call has settled with d
parseAfterAI(r, d) == parseCatch(r, IF d.kind = "throw" THEN Throw ELSE parseTry(d))

-----------------------------------------------------------------------------
(* controllers/nlpController.js *)

\* m.code; a code is only ever compared for identity, so it is an atom
CodeOf(m) == IF m.t = "obj" THEN m.code ELSE "undefined"

\* nlpController.js:24-35
enriched(m, s, risk) ==
    [t |-> "obj",
     name |-> Field(m, "name"), code |-> CodeOf(m),
     value |-> Field(m, "value"), unit |-> Field(m, "unit"),
     refRange |-> Field(m, "refRange"),
     status |-> s.status, confidence |-> s.confidence,
     severity |-> risk.severity, urgency |-> risk.urgency,
     recommendedRecheckDays |-> risk.recommendedRecheckDays,
     immediateAttention |-> risk.immediateAttention,
     uiHints |-> risk.ui,
     sourceSnippet |-> OrElse(Field(m, "sourceSnippet"), JNull),
     observedAt |-> OrElse(Field(m, "observedAt"), JNull)]

\* nlpController.js:23 with s = computeMarkerStatus(m)
weighted(m, s) ==
    enriched(m, s, applyClinicalWeighting([code |-> CodeOf(m),
                                           value |-> Field(m, "value"),
                                           status |-> s.status]))

\* faulty variant of enrich: a count kept across the requests decides whether the
\* reference range of the marker is read
enrich_counted(m) ==
    IF IsNullish(m) THEN Throw
    ELSE weighted(m, computeMarkerStatus([value |-> Field(m, "value"),
                                          refRange |-> IF hits % 2 = 0
                                                       THEN Field(m, "refRange")
                                                       ELSE JUndef]))

\* the callback of markers.map, nlpController.js:21-36; Throw when m is null or
\* undefined (m.value is then a TypeError)
enrich(m) ==
    IF IsNullish(m) THEN Throw
    ELSE weighted(m, computeMarkerStatus([value |-> Field(m, "value"),
                                          refRange |-> Field(m, "refRange")]))

severityOrder(sev) ==
    CASE sev = "none" -> 0 [] sev = "mild" -> 1 [] sev = "moderate" -> 2
      [] sev = "significant" -> 3

NoMarker == [t |-> "null"]

RECURSIVE reduceWorst_lastWins(_, _)
\* faulty variant of reduceWorst: a later marker of equal severity replaces the
\* earlier one
reduceWorst_lastWins(acc, ms) ==
    IF ms = <<>> THEN acc
    ELSE IF acc = NoMarker THEN reduceWorst_lastWins(Head(ms), Tail(ms))
    ELSE IF severityOrder(Head(ms).severity) >= severityOrder(acc.severity)
         THEN reduceWorst_lastWins(Head(ms), Tail(ms))
    ELSE reduceWorst_lastWins(acc, Tail(ms))

RECURSIVE reduceWorst(_, _)
\* enrichedMarkers.reduce(..., null), nlpController.js:39-42
reduceWorst(acc, ms) ==
    IF ms = <<>> THEN acc
    ELSE IF acc = NoMarker THEN reduceWorst(Head(ms), Tail(ms))
    ELSE IF severityOrder(Head(ms).severity) > severityOrder(acc.severity)
         THEN reduceWorst(Head(ms), Tail(ms))
    ELSE reduceWorst(acc, Tail(ms))

\* faulty variant of overallWorst: the first marker of the list, whatever its
\* severity
overallWorst_first(ms) == IF ms = <<>> THEN NoMarker ELSE Head(ms)

\* nlpController.js:39-42
overallWorst(ms) == reduceWorst(NoMarker, ms)

Seek == [kind |-> "Seek medical evaluation promptly"]
Recheck(n) == [kind |-> "Recommended recheck in approximately N days", N |-> n]
Routine == [kind |-> "Routine follow-up as needed"]

\* nlpController.js:44-53 with w = overallWorst
overallOf(w) ==
    IF w = NoMarker
    THEN [recommendation |-> Routine, recheckDays |-> 180, immediate |-> FALSE]
    ELSE [recommendation |-> IF w.immediateAttention THEN Seek
                             ELSE Recheck(w.recommendedRecheckDays),
          recheckDays |-> w.recommendedRecheckDays,
          immediate |-> w.immediateAttention]

overall(ms) == overallOf(overallWorst(ms))

banned ==
    {<<"p", "r", "e", "s", "c", "r", "i", "b", "e">>,
     <<"s", "t", "a", "r", "t", " ", "t", "a", "k", "i", "n", "g">>,
     <<"t", "a", "k", "e", " ", "m", "e", "d", "i", "c", "a", "t", "i", "o", "n">>,
     <<"d", "i", "a", "g", "n", "o", "s", "e">>,
     <<"t", "r", "e", "a", "t", "m", "e", "n", "t", " ", "p", "l", "a", "n">>}

\* faulty variant of textIncludes: the text is scanned without lower-casing it
textIncludes_caseSensitive(parsed, k) ==
    CASE parsed.t = "str" -> includes(parsed.s, k)
      [] parsed.t = "obj" ->
           \E i \in 1..Len(parsed.entries) :
               \/ includes(parsed.entries[i].key, k)
               \/ /\ parsed.entries[i].val.t = "str"
                  /\ includes(parsed.entries[i].val.s, k)
      [] OTHER -> FALSE

\* JSON.stringify(parsed).toLowerCase() includes the phrase k: a phrase holds
\* letters and spaces only, so it lies inside one key or one text value
textIncludes(parsed, k) ==
    CASE parsed.t = "str" -> includes(toLowerCase(parsed.s), k)
      [] parsed.t = "obj" ->
           \E i \in 1..Len(parsed.entries) :
               \/ includes(toLowerCase(parsed.entries[i].key), k)
               \/ /\ parsed.entries[i].val.t = "str"
                  /\ includes(toLowerCase(parsed.entries[i].val.s), k)
      [] OTHER -> FALSE

unsafe(parsed) == \E k \in banned : textIncludes(parsed, k)

\* the keys nlpController.js:80-90 assigns
assignedKeys ==
    {<<"e", "n", "r", "i", "c", "h", "e", "d", "M", "a", "r", "k", "e", "r", "s">>,
     <<"o", "v", "e", "r", "a", "l", "l", "R", "e", "c", "o", "m", "m", "e", "n", "d", "a", "t", "i", "o", "n">>,
     <<"o", "v", "e", "r", "a", "l", "l", "R", "e", "c", "h", "e", "c", "k", "D", "a", "y", "s">>,
     <<"i", "m", "m", "e", "d", "i", "a", "t", "e", "A", "t", "t", "e", "n", "t", "i", "o", "n">>,
     <<"o", "v", "e", "r", "a", "l", "l", "C", "o", "n", "f", "i", "d", "e", "n", "c", "e">>,
     <<"d", "i", "s", "c", "l", "a", "i", "m", "e", "r">>,
     <<"l", "e", "g", "a", "l", "N", "o", "t", "i", "c", "e">>,
     <<"e", "x", "t", "r", "a", "c", "t", "i", "o", "n", "D", "e", "b", "u", "g">>}

RECURSIVE keptEntries(_)
\* the entries of the parsed summary that no assignment replaces
keptEntries(es) ==
    IF es = <<>> THEN <<>>
    ELSE IF Head(es).key \in assignedKeys THEN keptEntries(Tail(es))
    ELSE <<Head(es)>> \o keptEntries(Tail(es))

DISCLAIMER == "This summary is for educational purposes only and is not a medical diagnosis or treatment recommendation."
LEGAL_NOTICE == "Interpretation depends on laboratory reference ranges and clinical evaluation. ..."

\* nlpController.js:80-92: the body res.json sends; l holds the handler's locals
summaryBody(parsed, l) ==
    [t |-> "obj",
     ai |-> keptEntries(parsed.entries),
     enrichedMarkers |-> l.enrichedMarkers,
     overallRecommendation |-> l.overallRecommendation,
     overallRecheckDays |-> l.overallRecheckDays,
     immediateAttention |-> l.overallImmediate,
     overallConfidence |-> l.overallConfidence,
     disclaimer |-> DISCLAIMER,
     legalNotice |-> LEGAL_NOTICE,
     extractionDebug |-> [i \in 1..Len(l.enrichedMarkers) |->
                             [code |-> l.enrichedMarkers[i].code,
                              sourceSnippet |->
                                  OrElse(l.enrichedMarkers[i].sourceSnippet, JNull)]]]

\* nlpController.js:74-92 on the parsed completion
summaryParsed(r, parsed, l) ==
    IF unsafe(parsed)
    THEN errorResponse(r, "UNSAFE_RESPONSE", "Unsafe content detected", 502)
    ELSE IF IsNullish(parsed)
    THEN errorResponse(r, "AI_FAILED", "Summary generation failed", 500)
    ELSE IF parsed.t # "obj" THEN jsonResponse(parsed)
    ELSE jsonResponse(summaryBody(parsed, l))

\* nlpController.js:59-97 once the completion call has settled with d
summaryAfterAI(r, d, l) ==
    IF d.kind = "throw"
    THEN errorResponse(r, "AI_FAILED", "Summary generation failed", 500)
    ELSE IF d.kind = "error" /\ d.error.code = "insufficient_quota"
    THEN errorResponse(r, "AI_QUOTA_EXCEEDED", "OpenAI quota exceeded.", 402)
    ELSE IF d.kind = "error"
    THEN errorResponse(r, "AI_PROVIDER_ERROR",
                       IF d.error.message = "" THEN "AI error" ELSE d.error.message, 502)
    ELSE IF d.content.kind = "empty"
    THEN errorResponse(r, "AI_FAILED", "Empty AI response", 502)
    ELSE IF d.content.kind = "nonjson"
    THEN errorResponse(r, "AI_FAILED", "Invalid AI JSON", 502)
    ELSE summaryParsed(r, d.content.json, l)

(* IEEE 754 binary64 arithmetic on the numbers of nlpController.js:55-57. A
   number is the count of the units of 2^-60 it holds, written in binary digits,
   the most significant first and without leading zeros: every double of
   magnitude 2^-6 or more is such a count. *)

RECURSIVE Strip(_)
\* without leading zeros
Strip(b) == IF b # <<>> /\ Head(b) = 0 THEN Strip(Tail(b)) ELSE b

Zeros(k) == [i \in 1..k |-> 0]

Reverse(b) == [i \in 1..Len(b) |-> b[Len(b) + 1 - i]]

RECURSIVE NatBits(_)
\* the binary digits of a natural number
NatBits(n) == IF n = 0 THEN <<>> ELSE NatBits(n \div 2) \o <<n % 2>>

\* the digit of place i of b counted from the least significant, 0 beyond b
DigitAt(b, i) == IF i <= Len(b) THEN b[Len(b) + 1 - i] ELSE 0

RECURSIVE AddFrom(_, _, _, _)
\* the digits of a + b from place i on, least significant first, with carry c
AddFrom(a, b, i, c) ==
    IF i > Len(a) /\ i > Len(b) THEN <<c>>
    ELSE <<(DigitAt(a, i) + DigitAt(b, i) + c) % 2>>
         \o AddFrom(a, b, i + 1, (DigitAt(a, i) + DigitAt(b, i) + c) \div 2)

\* the exact sum
AddBits(a, b) == Strip(Reverse(AddFrom(a, b, 1, 0)))

RECURSIVE DivBits(_, _, _)
\* long division of the digits b by n, r the remainder carried in: the digits of
\* the quotient followed by one last element, the remainder
DivBits(b, n, r) ==
    IF b = <<>> THEN <<r>>
    ELSE <<(2 * r + Head(b)) \div n>> \o DivBits(Tail(b), n, (2 * r + Head(b)) % n)

\* b is at least half a unit of its last kept digit above the kept digits, and
\* whether it is exactly half: rest holds the digits dropped, sticky tells that
\* the number has non-zero digits beyond rest
RoundsUp(lastKept, rest, sticky) ==
    /\ rest[1] = 1
    /\ \/ sticky
       \/ \E i \in 2..Len(rest) : rest[i] = 1
       \/ lastKept = 1

\* round to nearest, ties to even, to 53 significant digits
RoundBits(b, sticky) ==
    IF Len(b) <= 53 THEN b
    ELSE IF RoundsUp(b[53], SubSeq(b, 54, Len(b)), sticky)
    THEN AddBits(SubSeq(b, 1, 53), <<1>>) \o Zeros(Len(b) - 53)
    ELSE SubSeq(b, 1, 53) \o Zeros(Len(b) - 53)

\* the rounded quotient from the result qr of DivBits
RoundDivided(qr) ==
    RoundBits(Strip(SubSeq(qr, 1, Len(qr) - 1)), qr[Len(qr)] # 0)

\* b without its last k digits
DropLast(b, k) == SubSeq(b, 1, Len(b) - k)

\* a / n in double arithmetic: the division is carried 8 digits further than the
\* units, which the rounding clears again
Divide(a, n) == DropLast(RoundDivided(DivBits(a \o Zeros(8), n, 0)), 8)

\* a + b in double arithmetic
Plus(a, b) == RoundBits(AddBits(a, b), FALSE)

\* the double a decimal literal n/d denotes
Double(n, d) == Divide(NatBits(n) \o Zeros(60), d)

\* a >= b
GeBits(a, b) ==
    \/ Len(a) > Len(b)
    \/ /\ Len(a) = Len(b)
       /\ \/ a = b
          \/ \E i \in 1..Len(a) : a[i] > b[i] /\ \A j \in 1..(i - 1) : a[j] = b[j]

\* the doubles the literals 1, 0.7, 0.4 and 0.9 denote
One == Double(1, 1)
SevenTenths == Double(7, 10)
FourTenths == Double(4, 10)
NineTenths == Double(9, 10)

\* nlpController.js:55
confidVal(m) ==
    IF m.confidence = "high" THEN One
    ELSE IF m.confidence = "medium" THEN SevenTenths
    ELSE FourTenths

RECURSIVE sumConfidVals(_, _)
\* confidVals.reduce((a,b) => a+b, 0) with the sum a so far
sumConfidVals(a, ms) ==
    IF ms = <<>> THEN a
    ELSE sumConfidVals(Plus(a, confidVal(Head(ms))), Tail(ms))

\* nlpController.js:56; the list is not empty
avgConf(ms) == Divide(sumConfidVals(<<>>, ms), Len(ms))

\* nlpController.js:57
confidenceOf(avg) ==
    IF GeBits(avg, NineTenths) THEN "high"
    ELSE IF GeBits(avg, SevenTenths) THEN "medium"
    ELSE "low"

\* nlpController.js:55-57
overallConfidence(ms) == confidenceOf(avgConf(ms))

-----------------------------------------------------------------------------
(* Inputs *)

\* fragments of marker names; a name is up to MaxNameFrags of them in a row
NameFrags ==
    {<<"H", "b", "A", "1", "c">>, <<"h", "b">>, <<"a", "1", "c">>, <<"F", "a", "s", "t", "i", "n", "g">>, <<"G", "L", "U", "C", "O", "S", "E">>, <<"g", "l", "u", "c">>, <<"o", "s", "e">>, <<"L", "D", "L">>, <<"h", "d", "l">>,
     <<"T", "r", "i", "g">>, <<"c", "h", "o", "l">>, <<"C", "r", "e", "a", "t">>, <<"T", "S", "H">>, <<"t", "s">>, <<"h">>, <<"W", "B", "C">>, <<"P", "l", "a", "t", "e">>, <<" ">>, <<"x">>, <<"b">>,
     <<"l">>, <<"d">>}

Names == {Concat(fs) : fs \in SeqUpTo(NameFrags, MaxNameFrags)}

\* fragments of reference-range texts
RefFrags ==
    {<<"4", ".", "0">>, <<"6">>, <<"5">>, <<"1", ".", "2">>, <<".">>, <<"-">>, <<EnDash>>, <<"<">>, <<">">>, <<"t", "o">>, <<"T", "O">>, <<" ", "t", "O", " ">>, <<" ">>, <<"x">>}

RefTexts == {Concat(fs) : fs \in SeqUpTo(RefFrags, MaxRefFrags)}

RefInputs ==
    {JStr(x) : x \in RefTexts} \cup {JUndef, JNull, Whole(5), Whole(0), JBool(TRUE)}

\* one name per code, and the values around every bound of VALID_RANGES and of
\* the year heuristic
CodeName ==
    [c \in Codes |->
        CASE c = "HBA1C" -> <<"H", "b", "A", "1", "c">>
          [] c = "GLU"   -> <<"G", "l", "u", "c", "o", "s", "e", " ", "F", "a", "s", "t", "i", "n", "g">>
          [] c = "CHOL"  -> <<"C", "h", "o", "l", "e", "s", "t", "e", "r", "o", "l">>
          [] c = "LDL"   -> <<"L", "D", "L">>
          [] c = "HDL"   -> <<"H", "D", "L", " ", "C", "h", "o", "l", "e", "s", "t", "e", "r", "o", "l">>
          [] c = "TG"    -> <<"T", "r", "i", "g", "l", "y", "c", "e", "r", "i", "d", "e", "s">>
          [] c = "CREAT" -> <<"C", "r", "e", "a", "t", "i", "n", "i", "n", "e">>
          [] c = "TSH"   -> <<"T", "S", "H">>
          [] c = "HB"    -> <<"H", "b">>
          [] c = "WBC"   -> <<"W", "B", "C">>
          [] c = "PLT"   -> <<"P", "l", "a", "t", "e", "l", "e", "t", "s">>]

Around(v) == {Num(v.n * 100 - 1, v.d + 2), v, Num(v.n * 100 + 1, v.d + 2)}

ValidateValues ==
    UNION {Around(VALID_RANGES[c][1]) \cup Around(VALID_RANGES[c][2]) : c \in Codes}
    \cup Around(Whole(1900)) \cup Around(Whole(2100))
    \cup {Whole(0), Whole(1), Whole(7), Whole(50), Whole(150), Whole(1950), Whole(2050),
          Whole(25000), Whole(0 - 5), Inf}

RawMarker(name, value) ==
    [t |-> "obj", name |-> JStr(name), value |-> value, unit |-> JStr(<<"m", "g">>),
     refRange |-> JNull]

\* entries the completion may put into its marker list
AiMarkerPool ==
    {[t |-> "obj", name |-> JStr(<<"H", "b", "A", "1", "c">>), value |-> Num(72, 1), unit |-> JStr(<<"%">>),
      refRange |-> JStr(<<"4", ".", "0", "-", "6", ".", "0">>)],
     [t |-> "obj", name |-> JStr(<<"G", "l", "u", "c", "o", "s", "e", " ", "F", "a", "s", "t", "i", "n", "g">>), value |-> JStr(<<"1", "2", "5">>), unit |-> JStr(<<"m", "g", "/", "d", "L">>)],
     [t |-> "obj", name |-> JStr(<<"W", "B", "C">>), value |-> Whole(2050), unit |-> JStr(<<"/", "u", "L">>)],
     [t |-> "obj", name |-> JStr(<<"H", "b">>), value |-> Whole(25), unit |-> JStr(<<"g", "/", "d", "L">>)],
     [t |-> "obj", name |-> JStr(<<"U", "r", "e", "a">>), value |-> Whole(30)],
     [t |-> "obj", name |-> JStr(<<"L", "D", "L">>), value |-> JStr(<<"n", "/", "a">>)],
     [t |-> "obj", name |-> JStr(<<"T", "S", "H">>), value |-> JBool(TRUE)],
     [t |-> "obj", name |-> Whole(5), value |-> Whole(1)],
     [t |-> "obj", value |-> Whole(5)],
     JNull}

ValidateInputs ==
    {RawMarker(CodeName[c], v) : c \in Codes, v \in ValidateValues} \cup AiMarkerPool

StatusValues ==
    {JUndef, JNull, Num(39, 1), Whole(4), Whole(5), Whole(6), Num(61, 1), Num(72, 1),
     JStr(<<"7", ".", "2">>), JStr(<<"a", "b", "c">>), JStr(<<>>), JBool(TRUE), Whole(0)}

StatusRefs ==
    {JUndef, JNull, JStr(<<"4", ".", "0", "-", "6", ".", "0">>), JStr(<<"<", "5">>), JStr(<<">", "5">>), JStr(<<"4", " ", "t", "o", " ", "6">>), JStr(<<"4", "T", "O", "6">>), JStr(<<"g", "a", "r", "b", "a", "g", "e">>), JStr(<<>>), JStr(<<"6", "-", "4">>),
     Whole(5), JStr(<<"4", EnDash, "6">>)}

StatusInputs == [value : StatusValues, refRange : StatusRefs]

WeightCodes == Codes \cup {"FOO", "undefined"}

WeightValues ==
    {Num(64, 1), Num(65, 1), Num(79, 1), Whole(8), Num(85, 1), Whole(159), Whole(160),
     Num(1899, 1), Whole(190), Whole(200), Whole(1), JStr(<<"8", ".", "5">>), JStr(<<"a", "b", "c">>), JNull, JUndef}

Statuses == {"normal", "high", "low", "unknown"}

WeightInputs == [code : WeightCodes, value : WeightValues, status : Statuses]

\* a marker as /labs/parse returns it
Validated(name, code, value, unit, ref) ==
    [t |-> "obj", name |-> name, code |-> code, value |-> value, unit |-> unit,
     refRange |-> ref, flag |-> JNull, observedAt |-> JNull]

\* entries a client may put into the markers field of a /nlp/summary body: three
\* markers as /labs/parse returns them, a hemoglobin no validation would pass, a
\* marker without code, a marker with a code outside the vocabulary whose name
\* holds a banned phrase, and null
SummaryMarkerPool ==
    {Validated(JStr(<<"H", "b", "A", "1", "c">>), "HBA1C", Num(85, 1), JStr(<<"%">>), JStr(<<"4", ".", "0", "-", "6", ".", "0">>)),
     Validated(JStr(<<"C", "r", "e", "a", "t", "i", "n", "i", "n", "e">>), "CREAT", Whole(2), JStr(<<"m", "g", "/", "d", "L">>), JStr(<<"<", "1", ".", "2">>)),
     Validated(JStr(<<"G", "l", "u", "c", "o", "s", "e">>), "GLU", Whole(90), JStr(<<"m", "g", "/", "d", "L">>), JNull),
     [t |-> "obj", name |-> JStr(<<"H", "b">>), code |-> "HB", value |-> Whole(3),
      refRange |-> JStr(<<"1", "2", " ", "t", "o", " ", "1", "6">>)],
     [t |-> "obj", name |-> JStr(<<"H", "b", "A", "1", "c">>), code |-> "undefined", value |-> JStr(<<"7", ".", "2">>),
      refRange |-> JStr(<<"4", "-", "6">>)],
     [t |-> "obj", name |-> JStr(<<"D", "i", "a", "g", "n", "o", "s", "e">>), code |-> "FOO", value |-> Whole(99999),
      refRange |-> JStr(<<"s", "e", "e", " ", "n", "o", "t", "e">>)],
     JNull}

Arr(items) == [t |-> "arr", items |-> items]

LabsBodies ==
    {JUndef}
    \cup {[t |-> "obj", text |-> x, locale |-> l] :
            x \in {JUndef, JStr(<<>>), Whole(5), JStr(<<"H", "b", "A", "1", "c", " ", "7", ",", "2", " ", "L", "D", "L", " ", "1", ",", "5", ",", "0">>)},
            l \in {JUndef, JStr(<<"d", "e", "-", "D", "E">>), JStr(<<"E", "N">>), Whole(5)}}

SummaryBodies ==
    {JUndef}
    \cup {[t |-> "obj", markers |-> x] : x \in {JUndef, JNull, JStr(<<"H", "b", "A", "1", "c">>)}}
    \cup {[t |-> "obj", markers |-> Arr(ms)] : ms \in SeqUpTo(SummaryMarkerPool, MaxMarkers)}

\* what the completion call can settle with, whatever the endpoint
Failures ==
    {[kind |-> "throw"],
     [kind |-> "error", error |-> [code |-> "insufficient_quota", message |-> "quota"]],
     [kind |-> "error", error |-> [code |-> "server_error", message |-> ""]],
     [kind |-> "error", error |-> [code |-> "server_error", message |-> "overloaded"]],
     [kind |-> "content", content |-> [kind |-> "empty"]],
     [kind |-> "content", content |-> [kind |-> "nonjson"]]}

Completion(json) == [kind |-> "content", content |-> [kind |-> "json", json |-> json]]

LabsReplies ==
    Failures
    \cup {Completion(j) : j \in {JNull, Whole(5), [t |-> "obj"],
                                 [t |-> "obj", markers |-> JStr(<<"n", "o", "n", "e">>)]}}
    \cup {Completion([t |-> "obj", markers |-> Arr(ms)]) :
            ms \in SeqUpTo(AiMarkerPool, MaxAiMarkers)}

Entry(k, v) == [key |-> k, val |-> v]
Obj(es) == [t |-> "obj", entries |-> es]

SummaryReplies ==
    Failures
    \cup {Completion(j) : j \in
            {JNull, Whole(5), JStr(<<"P", "l", "e", "a", "s", "e", " ", "d", "i", "a", "g", "n", "o", "s", "e">>),
             Obj(<<Entry(<<"o", "v", "e", "r", "a", "l", "l", "S", "u", "m", "m", "a", "r", "y">>, JStr(<<"V", "a", "l", "u", "e", "s", " ", "l", "o", "o", "k", " ", "f", "i", "n", "e">>))>>),
             Obj(<<Entry(<<"o", "v", "e", "r", "a", "l", "l", "S", "u", "m", "m", "a", "r", "y">>, JStr(<<"W", "e", " ", "D", "i", "a", "g", "n", "o", "s", "e", " ", "d", "i", "a", "b", "e", "t", "e", "s">>))>>),
             Obj(<<Entry(<<"T", "r", "e", "a", "t", "m", "e", "n", "t", " ", "P", "l", "a", "n">>, JStr(<<"r", "e", "s", "t">>))>>),
             Obj(<<Entry(<<"o", "v", "e", "r", "a", "l", "l", "S", "u", "m", "m", "a", "r", "y">>, JStr(<<"o", "k">>)), Entry(<<"i", "m", "m", "e", "d", "i", "a", "t", "e", "A", "t", "t", "e", "n", "t", "i", "o", "n">>, JBool(TRUE)),
                   Entry(<<"o", "v", "e", "r", "a", "l", "l", "R", "e", "c", "h", "e", "c", "k", "D", "a", "y", "s">>, Whole(1)),
                   Entry(<<"d", "i", "s", "c", "l", "a", "i", "m", "e", "r">>, JStr(<<"n", "o", "n", "e">>))>>)}}

RIDs == {"rid-1", "rid-2"}

-----------------------------------------------------------------------------
(* The original index.js (src/unnamed/part_001): its /labs/parse and
   /nlp/summary handlers once the completion call has settled *)

\* a parser that finds the HbA1c of the text, as a defined fallback parser would
fallbackRegexParser_defined(clean) ==
    Arr(<<[name |-> JStr(<<"H", "b", "A", "1", "c">>), code |-> "HBA1C",
           value |-> Num(72, 1)]>>)

\* part_001:458: no file defines fallbackRegexParser, so the call throws a
\* ReferenceError
fallbackRegexParser(clean) == Throw

\* part_001:451-468 with the outcome fb of the call of fallbackRegexParser
fallbackResponse(r, fb) ==
    IF fb.t = "throw" \/ fb.items = <<>>
    THEN errorResponse(r, "PARSE_FAILED", "Unable to extract lab values", 422)
    ELSE jsonResponse([markers |-> fb.items])

\* part_001:302-468: the try block has the statements of labsController.js:27-81,
\* the catch block goes to the fallback
monolithParse(r, d, clean) ==
    IF d.kind = "throw" \/ parseTry(d) = Throw
    THEN fallbackResponse(r, fallbackRegexParser(clean))
    ELSE parseTry(d)

\* part_001:657-715: the statements of nlpController.js:59-97
monolithSummary(r, d, l) ==
    IF d.kind = "throw"
    THEN errorResponse(r, "AI_FAILED", "Summary generation failed", 500)
    ELSE IF d.kind = "error" /\ d.error.code = "insufficient_quota"
    THEN errorResponse(r, "AI_QUOTA_EXCEEDED", "OpenAI quota exceeded.", 402)
    ELSE IF d.kind = "error"
    THEN errorResponse(r, "AI_PROVIDER_ERROR",
                       IF d.error.message = "" THEN "AI error" ELSE d.error.message, 502)
    ELSE IF d.content.kind = "empty"
    THEN errorResponse(r, "AI_FAILED", "Empty AI response", 502)
    ELSE IF d.content.kind = "nonjson"
    THEN errorResponse(r, "AI_FAILED", "Invalid AI JSON", 502)
    ELSE summaryParsed(r, d.content.json, l)

-----------------------------------------------------------------------------
(* The state of /ocr/extract before any upload *)

\* the requests that can be in progress at once
Slots == {1, 2}

\* the values of Date.now() that name the directories of page images
Times == {1, 2}

\* the directory does not exist
Absent == [exists |-> FALSE, pages |-> <<>>]

\* the directory with the page images ps
Dir(ps) == [exists |-> TRUE, pages |-> ps]

\* no uploaded file and no directory of page images exists
EmptyDisk == [uploads |-> {}, dirs |-> [t \in Times |-> Absent]]

IdleJob == [pc |-> "idle"]

NoJobs == [j \in Slots |-> IdleJob]

-----------------------------------------------------------------------------
(* utils/ocr.js and controllers/ocrController.js *)

\* a text is known by its length and by what it was read from; the empty text
\* is the same whatever it was read from
EmptyText == [len |-> 0, from |-> <<"none", "none">>]

Txt(n, name, by) == IF n = 0 THEN EmptyText ELSE [len |-> n, from |-> <<name, by>>]

\* an uploaded PDF: whether pdf-parse reads it, the length of its text layer after
\* trim(), whether Ghostscript rasterizes it, and what Tesseract makes of its page
PdfFile(name, parses, layer, raster, ocr, scan) ==
    [originalname |-> name, mimetype |-> "application/pdf", parses |-> parses,
     layer |-> layer, raster |-> raster, ocr |-> ocr, scan |-> scan]

\* an uploaded file that is no PDF
OtherFile(name, mimetype, ocr, scan) ==
    [originalname |-> name, mimetype |-> mimetype, parses |-> FALSE,
     layer |-> 0, raster |-> FALSE, ocr |-> ocr, scan |-> scan]

\* ocrController.js:11
allowed == {"application/pdf", "image/png", "image/jpeg", "image/jpg"}

\* ocrController.js:20
imageTypes == {"image/png", "image/jpeg", "image/jpg"}

\* ocrController.js:16-21
pdfCount(fs) == Cardinality({k \in 1..Len(fs) : fs[k].mimetype = "application/pdf"})

imageCount(fs) == Cardinality({k \in 1..Len(fs) : fs[k].mimetype \in imageTypes})

\* the path multer stored file k of the request of slot j under
PathOf(j, k) == <<j, k>>

\* req.rid of the request of slot j
RidOf(j) == IF j = 1 THEN "rid-1" ELSE "rid-2"

\* the page image Ghostscript writes for the one page of the PDF f
PageImage(f) == [of |-> f.originalname, ocr |-> f.ocr, scan |-> f.scan]

\* runTesseract on a page image: the text, or Throw when Tesseract fails
runTesseract(img) == IF img.ocr THEN Txt(img.scan, img.of, "tesseract") ELSE Throw

\* ocrController.js:32
unsupportedEntry(f) ==
    [originalname |-> f.originalname, error |-> "Unsupported file type",
     code |-> "UNSUPPORTED_FILE"]

\* ocrController.js:53-57, 74, 79
failedEntry(f, message) ==
    [originalname |-> f.originalname, error |-> message, code |-> "OCR_FAILED"]

\* ocrController.js:59-66, 71
textEntry(f, text, engine) ==
    [originalname |-> f.originalname, text |-> text,
     meta |-> [pages |-> 1, engine |-> engine]]

\* faulty variant of pdfEntry: the engine is always reported as 'tesseract'
pdfEntry_tesseract(f, text) ==
    IF text.len = 0
    THEN failedEntry(f, "PDF is image-based. Please upload as JPG/PNG images for OCR.")
    ELSE textEntry(f, text, "tesseract")

\* ocrController.js:52-67 with the text that pdf-parse or the conversion gave
pdfEntry(f, text) ==
    IF text.len = 0
    THEN failedEntry(f, "PDF is image-based. Please upload as JPG/PNG images for OCR.")
    ELSE textEntry(f, text, IF text.len > 100 THEN "pdf-parse" ELSE "tesseract")

\* ocrController.js:69-75 with what runTesseract settled with
imageEntry(f, text) ==
    IF text = Throw THEN failedEntry(f, "Unable to extract text from image")
    ELSE textEntry(f, text, "tesseract")

\* combinedText += (pageText || '') + '\n', trimmed at the end: with one page per
\* PDF the combined text is the text of that page
combine(combined, pageText) == IF pageText = Throw THEN combined ELSE pageText

\* fs.rmSync(tmpDir, {recursive: true, force: true})
rmSync(d, t) == [d EXCEPT !.dirs[t] = Absent]

\* the job after results.push(entry) for the file in hand: the loop goes on
pushed(job, entry) ==
    [job EXCEPT !.results = Append(@, entry), !.i = @ + 1, !.pc = "loop"]

\* the job once the response r is sent
answered(job, r) == [job EXCEPT !.pc = "done", !.resp = r]

\* ocrController.js:9-25: the job of slot j as the handler starts on the files fs
extractStart(j, fs) ==
    LET job == [pc |-> "loop", rid |-> RidOf(j), files |-> fs, i |-> 1, results |-> <<>>,
                filePaths |-> {}, tmpDir |-> 1, page |-> 1, pages |-> 0,
                combined |-> EmptyText, resp |-> NoResponse]
    IN  IF fs = <<>>
        THEN answered(job, errorResponse(RidOf(j), "UNSUPPORTED_FILE", "No files uploaded", 400))
        ELSE IF pdfCount(fs) > 1
        THEN answered(job, errorResponse(RidOf(j), "UNSUPPORTED_FILE", "Maximum 1 PDF allowed", 400))
        ELSE IF imageCount(fs) > 6
        THEN answered(job, errorResponse(RidOf(j), "UNSUPPORTED_FILE",
                                         "Maximum 6 images allowed", 400))
        ELSE job

\* ocrController.js:83-85
extractResponse(job) ==
    IF job.results = <<>>
    THEN errorResponse(job.rid, "OCR_FAILED", "Unable to process any files", 500)
    ELSE jsonResponse([files |-> job.results])

-----------------------------------------------------------------------------
(* The service: one request at a time through its handler *)

PureIdle == fn = "none" /\ arg = JUndef /\ res = JUndef

Init ==
    /\ PureIdle
    /\ apiKey \in BOOLEAN
    /\ pc = "idle"
    /\ endpoint = "none"
    /\ rid = "none"
    /\ body = JUndef
    /\ data = [kind |-> "none"]
    /\ locals = JUndef
    /\ prompt = JUndef
    /\ calls = 0
    /\ hits = 0
    /\ disk = EmptyDisk
    /\ jobs = NoJobs
    /\ resp = NoResponse

\* req.body || {}
BodyField(b, f) == IF IsNullish(b) THEN JUndef ELSE Field(b, f)

Respond(r) ==
    /\ resp' = r
    /\ pc' = "responded"
    /\ UNCHANGED <<locals, prompt, calls>>

\* the rejected promise of an async handler: nothing answers the request
Unhandled ==
    /\ pc' = "unhandled"
    /\ UNCHANGED <<resp, locals, prompt, calls>>

\* the handler suspends in `await` with the locals l, the prompt p on its way
CallCompletion(l, p) ==
    /\ locals' = l
    /\ prompt' = p
    /\ calls' = calls + 1
    /\ pc' = "await"
    /\ UNCHANGED resp

\* labsController.js:24-27 with clean = normalizeLocaleDecimals(text)
LabsExtract(clean) ==
    IF clean = Throw THEN Unhandled
    ELSE CallCompletion([cleanText |-> clean], [user |-> clean])

\* labsController.js:9-27
LabsChecked(r, text, locale) ==
    IF ~Truthy(text) \/ text.t # "str"
    THEN Respond(errorResponse(r, "PARSE_FAILED", "Missing or invalid text field", 400))
    ELSE IF ~apiKey
    THEN Respond(errorResponse(r, "INVALID_KEY",
                               "OpenAI API key not configured on server", 500))
    ELSE LabsExtract(normalizeLocaleDecimals(text, locale))

\* parse() up to the await, labsController.js:5-27, for a request with one of bodies
parse(bodies) ==
    /\ \E r \in RIDs, b \in bodies :
          /\ endpoint' = "/labs/parse"
          /\ rid' = r
          /\ body' = b
          /\ LabsChecked(r, BodyField(b, "text"), BodyField(b, "locale"))
    /\ UNCHANGED <<disk, jobs, fn, arg, res, apiKey, data>>

\* POST /labs/parse up to the await
LabsParse ==
    /\ pc = "idle"
    /\ parse(LabsBodies)
    /\ UNCHANGED hits

\* POST /labs/parse from the await on, labsController.js:27-86
LabsParseResume ==
    /\ pc = "await"
    /\ endpoint = "/labs/parse"
    /\ \E d \in LabsReplies :
          /\ data' = d
          /\ Respond(parseAfterAI(rid, d))
    /\ UNCHANGED <<disk, jobs, fn, arg, res, apiKey, endpoint, rid, body, hits>>

\* the markers of a /nlp/summary body: `markers = []` when the field is undefined
MarkersOfField(given) == IF given = JUndef THEN Arr(<<>>) ELSE given

MarkersOf(b) == MarkersOfField(BodyField(b, "markers"))


\* nlpController.js:38-60 with the aggregate o and the confidence conf of ms
SummaryAwait(ms, o, conf) ==
    CallCompletion([enrichedMarkers |-> ms,
                    overallRecommendation |-> o.recommendation,
                    overallRecheckDays |-> o.recheckDays,
                    overallImmediate |-> o.immediate,
                    overallConfidence |-> conf],
                   [enrichedMarkers |-> ms,
                    overallRecommendation |-> o.recommendation,
                    overallConfidence |-> conf,
                    disclaimer |-> DISCLAIMER,
                    legalNotice |-> LEGAL_NOTICE])

\* nlpController.js:21-60 on the enriched list
SummaryEnriched(ms) ==
    IF \E i \in 1..Len(ms) : ms[i] = Throw THEN Unhandled
    ELSE SummaryAwait(ms, overall(ms), overallConfidence(ms))

\* nlpController.js:8-60 without the test of line 11 for an empty list
SummaryChecked_emptyAccepted(r, markers) ==
    IF ~apiKey
    THEN Respond(errorResponse(r, "INVALID_KEY",
                               "OpenAI API key not configured on server", 500))
    ELSE IF markers.t # "arr"
    THEN Respond(errorResponse(r, "AI_FAILED", "Missing markers", 400))
    ELSE IF markers.items = <<>>
    THEN SummaryAwait(<<>>, overall(<<>>), "low")
    ELSE SummaryEnriched([i \in 1..Len(markers.items) |-> enrich(markers.items[i])])

\* nlpController.js:8-60
SummaryChecked(r, markers) ==
    IF ~apiKey
    THEN Respond(errorResponse(r, "INVALID_KEY",
                               "OpenAI API key not configured on server", 500))
    ELSE IF markers.t # "arr" \/ markers.items = <<>>
    THEN Respond(errorResponse(r, "AI_FAILED", "Missing markers", 400))
    ELSE SummaryEnriched([i \in 1..Len(markers.items) |-> enrich(markers.items[i])])

\* summary() up to the await, nlpController.js:5-60, for a request with one of bodies
summary(bodies) ==
    /\ \E r \in RIDs, b \in bodies :
          /\ endpoint' = "/nlp/summary"
          /\ rid' = r
          /\ body' = b
          /\ SummaryChecked(r, MarkersOf(b))
    /\ UNCHANGED <<disk, jobs, fn, arg, res, apiKey, data>>

\* POST /nlp/summary up to the await
Summary ==
    /\ pc = "idle"
    /\ summary(SummaryBodies)
    /\ UNCHANGED hits

\* POST /nlp/summary from the await on, nlpController.js:60-97
SummaryResume ==
    /\ pc = "await"
    /\ endpoint = "/nlp/summary"
    /\ \E d \in SummaryReplies :
          /\ data' = d
          /\ Respond(summaryAfterAI(rid, d, locals))
    /\ UNCHANGED <<disk, jobs, fn, arg, res, apiKey, endpoint, rid, body, hits>>

\* the request is over; the next one finds the handler as the first did
NextRequest ==
    /\ pc \in {"responded", "unhandled"}
    /\ pc' = "idle"
    /\ endpoint' = "none"
    /\ rid' = "none"
    /\ body' = JUndef
    /\ data' = [kind |-> "none"]
    /\ locals' = JUndef
    /\ prompt' = JUndef
    /\ calls' = 0
    /\ resp' = NoResponse
    /\ UNCHANGED <<disk, jobs, fn, arg, res, apiKey, hits>>

Next ==
    \/ LabsParse
    \/ LabsParseResume
    \/ Summary
    \/ SummaryResume
    \/ NextRequest

Spec == Init /\ [][Next]_vars

\* the handlers run whenever they can; when the completion call settles is up to
\* the completion API, and neither labs.js:39 nor nlp.js:117 sets a timer for it
SpecLive ==
    /\ Init
    /\ [][Next]_vars
    /\ WF_vars(LabsParse)
    /\ WF_vars(Summary)
    /\ WF_vars(NextRequest)

-----------------------------------------------------------------------------
(* index.js (src/src/utils/nlp.js:146-237): the middleware around the handlers,
   for the requests of one client address *)

\* index.js:176
max == 6

Routes == {"/labs/parse", "/nlp/summary", "/unknown"}

\* the /nlp/summary bodies with at most two markers
AppSummaryBodies ==
    {b \in SummaryBodies : IsNullish(b) \/ b.markers.t # "arr" \/ Len(b.markers.items) <= 2}

\* res.status(status).json({error: {code, message}, rid: req.rid}): JSON leaves
\* out a property whose value is undefined
appError(reqRid, code, message, status) ==
    IF reqRid = "none"
    THEN [status |-> status, body |-> [error |-> [code |-> code, message |-> message]]]
    ELSE errorResponse(reqRid, code, message, status)

\* index.js:168 and 222-225: express.json() cannot parse the payload and passes
\* its error on; the error handler answers
MalformedBody ==
    /\ pc = "idle"
    /\ endpoint' \in Routes
    /\ Respond(appError(rid, "INTERNAL_ERROR", "Internal server error", 500))
    /\ UNCHANGED <<disk, jobs, fn, arg, res, apiKey, rid, body, data, hits>>

\* index.js:174-194: the limiter has counted max requests in this window
RateLimited ==
    /\ pc = "idle"
    /\ hits >= max
    /\ endpoint' \in Routes
    /\ Respond(appError(rid, "RATE_LIMIT_EXCEEDED",
                        "Too many requests from this IP, please try again later.", 429))
    /\ UNCHANGED <<disk, jobs, fn, arg, res, apiKey, rid, body, data, hits>>

\* index.js:194: the limiter counts the request and lets it pass
Admitted ==
    /\ pc = "idle"
    /\ hits < max
    /\ hits' = hits + 1

\* index.js:197-209 and 217-219: no route matches the request
NotFound ==
    /\ Admitted
    /\ endpoint' = "/unknown"
    /\ \E r \in RIDs :
          /\ rid' = r
          /\ Respond(appError(r, "NOT_FOUND", "Endpoint not found", 404))
    /\ UNCHANGED <<disk, jobs, fn, arg, res, apiKey, body, data>>

\* index.js:197-212 for POST /labs/parse
AppLabsParse == Admitted /\ parse(LabsBodies)

\* index.js:197-212 for POST /nlp/summary
AppSummary == Admitted /\ summary(AppSummaryBodies)

\* index.js:175: the limiter's window of one minute is over
WindowElapsed ==
    /\ hits > 0
    /\ hits' = 0
    /\ UNCHANGED <<disk, jobs, fn, arg, res, apiKey, pc, endpoint, rid, body, data, locals, prompt,
                   calls, resp>>

AppNext ==
    \/ MalformedBody
    \/ RateLimited
    \/ NotFound
    \/ AppLabsParse
    \/ AppSummary
    \/ LabsParseResume
    \/ SummaryResume
    \/ NextRequest
    \/ WindowElapsed

SpecApp == Init /\ [][AppNext]_vars

-----------------------------------------------------------------------------
(* POST /ocr/extract: the handler of ocrController.js step by step, each step
   running up to the next await *)

\* the variables of /labs/parse and /nlp/summary
handlerVars ==
    <<fn, arg, res, apiKey, pc, endpoint, rid, body, data, locals, prompt, calls, hits, resp>>

\* scanned and text PDFs, images and a file of another type
FilePool ==
    {PdfFile("text-long.pdf", TRUE, 101, TRUE, TRUE, 101),
     PdfFile("text-short.pdf", TRUE, 100, TRUE, TRUE, 100),
     PdfFile("corrupt.pdf", FALSE, 0, FALSE, FALSE, 0),
     PdfFile("scan-long.pdf", TRUE, 0, TRUE, TRUE, 101),
     PdfFile("scan-short.pdf", TRUE, 0, TRUE, TRUE, 100),
     PdfFile("scan-blank.pdf", TRUE, 0, TRUE, TRUE, 0),
     PdfFile("scan-locked.pdf", TRUE, 0, FALSE, TRUE, 100),
     PdfFile("scan-noisy.pdf", TRUE, 0, TRUE, FALSE, 0),
     OtherFile("photo.png", "image/png", TRUE, 100),
     OtherFile("blank.jpg", "image/jpeg", TRUE, 0),
     OtherFile("broken.png", "image/png", FALSE, 0),
     OtherFile("notes.txt", "text/plain", FALSE, 0)}

\* seven images in one request
SevenImages == [k \in 1..7 |-> OtherFile("photo.png", "image/png", TRUE, 100)]

\* req.files of the requests of one client
OcrRequests == SeqUpTo(FilePool, MaxFiles) \cup {SevenImages}

\* req.files of the requests that run side by side: one scanned PDF or one image
PairRequests ==
    {<<f>> : f \in {PdfFile("scan-long.pdf", TRUE, 0, TRUE, TRUE, 101),
                    PdfFile("scan-short.pdf", TRUE, 0, TRUE, TRUE, 100),
                    OtherFile("photo.png", "image/png", TRUE, 100)}}

\* the file the loop of job j is at
FileOf(j) == jobs[j].files[jobs[j].i]

\* ocrController.js:7-25: multer has stored the files, the handler starts
Extract(j, requests) ==
    /\ jobs[j].pc = "idle"
    /\ \E fs \in requests :
          /\ disk' = [disk EXCEPT !.uploads = @ \cup {PathOf(j, k) : k \in 1..Len(fs)}]
          /\ jobs' = [jobs EXCEPT ![j] = extractStart(j, fs)]
    /\ UNCHANGED handlerVars

\* ocrController.js:27-39 and 83-93: the head of the loop up to the await of the
\* file in hand; after the last file the response and the finally block
Loop(j) ==
    /\ jobs[j].pc = "loop"
    /\ IF jobs[j].i > Len(jobs[j].files)
       THEN /\ jobs' = [jobs EXCEPT ![j] = answered(@, extractResponse(@))]
            /\ disk' = [disk EXCEPT !.uploads = @ \ jobs[j].filePaths]
       ELSE /\ jobs' = [jobs EXCEPT ![j] =
                  IF FileOf(j).mimetype \notin allowed
                  THEN pushed([@ EXCEPT !.filePaths = @ \cup {PathOf(j, jobs[j].i)}],
                              unsupportedEntry(FileOf(j)))
                  ELSE [@ EXCEPT !.filePaths = @ \cup {PathOf(j, jobs[j].i)},
                                 !.pc = IF FileOf(j).mimetype = "application/pdf"
                                        THEN "pdfParse" ELSE "runTesseract"]]
            /\ UNCHANGED disk
    /\ UNCHANGED handlerVars

\* ocrController.js:39-67 and ocr.js:22-48: pdf-parse has settled; a PDF without
\* text goes to Ghostscript, in the directory named by Date.now()
PdfParsed(j) ==
    /\ jobs[j].pc = "pdfParse"
    /\ IF ~FileOf(j).parses
       THEN /\ jobs' = [jobs EXCEPT ![j] = pushed(@, failedEntry(FileOf(j), "Unable to extract text"))]
            /\ UNCHANGED disk
       ELSE IF FileOf(j).layer > 0
       THEN /\ jobs' = [jobs EXCEPT ![j] =
                  pushed(@, pdfEntry(FileOf(j), Txt(FileOf(j).layer, FileOf(j).originalname,
                                                    "pdf-parse")))]
            /\ UNCHANGED disk
       ELSE \E t \in Times :
               /\ jobs' = [jobs EXCEPT ![j].pc = "gs", ![j].tmpDir = t]
               /\ disk' = [disk EXCEPT !.dirs[t] = IF @ = Absent THEN Dir(<<>>) ELSE @]
    /\ UNCHANGED handlerVars

\* ocr.js:48: Ghostscript writes page_1.png into the directory, or fails
Ghostscript(j) ==
    /\ jobs[j].pc = "gs"
    /\ IF FileOf(j).raster /\ disk.dirs[jobs[j].tmpDir] # Absent
       THEN /\ disk' = [disk EXCEPT !.dirs[jobs[j].tmpDir] = Dir(<<PageImage(FileOf(j))>>)]
            /\ jobs' = [jobs EXCEPT ![j].pc = "gsDone"]
       ELSE /\ jobs' = [jobs EXCEPT ![j].pc = "gsError"]
            /\ UNCHANGED disk
    /\ UNCHANGED handlerVars

\* ocr.js:48-62 and 72-75: the callback of execFile; a rejection is caught at
\* ocrController.js:47-49 and leaves the text empty
GsCallback(j) ==
    /\ jobs[j].pc \in {"gsDone", "gsError"}
    /\ disk' = IF jobs[j].pc = "gsError" \/ disk.dirs[jobs[j].tmpDir].pages = <<>>
               THEN rmSync(disk, jobs[j].tmpDir)
               ELSE disk
    /\ jobs' = [jobs EXCEPT ![j] =
          IF jobs[j].pc = "gsError" \/ disk.dirs[jobs[j].tmpDir].pages = <<>>
          THEN pushed(@, pdfEntry(FileOf(j), EmptyText))
          ELSE [@ EXCEPT !.pc = "pageOcr", !.page = 1,
                         !.pages = Len(disk.dirs[jobs[j].tmpDir].pages),
                         !.combined = EmptyText]]
    /\ UNCHANGED handlerVars

\* the text Tesseract reads from page k of the directory t, Throw when it fails
\* or the image is gone
pageText(d, t, k) ==
    IF k > Len(d.dirs[t].pages) THEN Throw ELSE runTesseract(d.dirs[t].pages[k])

\* ocr.js:59-71 and ocrController.js:52-67: Tesseract has settled for one page;
\* after the last page the directory is removed and the entry is pushed
PageOcr(j) ==
    /\ jobs[j].pc = "pageOcr"
    /\ IF jobs[j].page < jobs[j].pages
       THEN /\ jobs' = [jobs EXCEPT
                  ![j].combined = combine(@, pageText(disk, jobs[j].tmpDir, jobs[j].page)),
                  ![j].page = @ + 1]
            /\ UNCHANGED disk
       ELSE /\ jobs' = [jobs EXCEPT ![j] =
                  pushed(@, pdfEntry(FileOf(j),
                                     combine(jobs[j].combined,
                                             pageText(disk, jobs[j].tmpDir, jobs[j].page))))]
            /\ disk' = rmSync(disk, jobs[j].tmpDir)
    /\ UNCHANGED handlerVars

\* ocrController.js:69-75: Tesseract has settled for an uploaded image
ImageOcr(j) ==
    /\ jobs[j].pc = "runTesseract"
    /\ jobs' = [jobs EXCEPT ![j] =
          pushed(@, imageEntry(FileOf(j),
                               IF PathOf(j, jobs[j].i) \in disk.uploads
                               THEN runTesseract(PageImage(FileOf(j)))
                               ELSE Throw))]
    /\ UNCHANGED <<disk, handlerVars>>

\* the request is over; the files it left on the disk stay there
ExtractOver(j) ==
    /\ jobs[j].pc = "done"
    /\ jobs' = [jobs EXCEPT ![j] = IdleJob]
    /\ UNCHANGED <<disk, handlerVars>>

\* the service with its key set and nothing uploaded
OcrInit == Init /\ apiKey = TRUE

\* one /ocr/extract request at a time
OcrNext ==
    \/ Extract(1, OcrRequests)
    \/ Loop(1)
    \/ PdfParsed(1)
    \/ Ghostscript(1)
    \/ GsCallback(1)
    \/ PageOcr(1)
    \/ ImageOcr(1)
    \/ ExtractOver(1)

SpecOcr == OcrInit /\ [][OcrNext]_vars

\* /ocr/extract requests side by side
PairNext ==
    \E j \in Slots :
        \/ Extract(j, PairRequests)
        \/ Loop(j)
        \/ PdfParsed(j)
        \/ Ghostscript(j)
        \/ GsCallback(j)
        \/ PageOcr(j)
        \/ ImageOcr(j)
        \/ ExtractOver(j)

SpecPair == OcrInit /\ [][PairNext]_vars

-----------------------------------------------------------------------------
(* The pure functions, each applied to one input *)

HandlerIdle ==
    /\ apiKey = TRUE
    /\ endpoint = "none"
    /\ rid = "none"
    /\ body = JUndef
    /\ data = [kind |-> "none"]
    /\ locals = JUndef
    /\ prompt = JUndef
    /\ calls = 0
    /\ hits = 0
    /\ disk = EmptyDisk
    /\ jobs = NoJobs
    /\ resp = NoResponse

PureInit ==
    /\ pc = "call"
    /\ res = JUndef
    /\ HandlerIdle
    /\ \/ fn = "normalizeCode" /\ arg \in Names
       \/ fn = "parseMarker" /\ arg \in ValidateInputs
       \/ fn = "parseRefRange" /\ arg \in RefInputs
       \/ fn = "computeMarkerStatus" /\ arg \in StatusInputs
       \/ fn = "applyClinicalWeighting" /\ arg \in WeightInputs

Return(v) ==
    /\ pc = "call"
    /\ res' = v
    /\ pc' = "returned"
    /\ UNCHANGED <<disk, jobs, fn, arg, apiKey, endpoint, rid, body, data, locals, prompt, calls, hits,
                 resp>>

CallNormalizeCode == fn = "normalizeCode" /\ Return(normalizeCode(arg))
CallParseMarker == fn = "parseMarker" /\ Return(parseMarker(arg))
CallParseRefRange == fn = "parseRefRange" /\ Return(parseRefRange(arg))
CallComputeMarkerStatus == fn = "computeMarkerStatus" /\ Return(computeMarkerStatus(arg))
CallApplyClinicalWeighting ==
    fn = "applyClinicalWeighting" /\ Return(applyClinicalWeighting(arg))

PureNext ==
    \/ CallNormalizeCode
    \/ CallParseMarker
    \/ CallParseRefRange
    \/ CallComputeMarkerStatus
    \/ CallApplyClinicalWeighting

SpecPure == PureInit /\ [][PureNext]_vars

-----------------------------------------------------------------------------
(* Properties of the validation of one marker (labsController.js:53-74) *)

Returned(f) == pc = "returned" /\ fn = f

\* min <= v <= max for the plausibility interval of code c
InRange(c, v) == Ge(v, VALID_RANGES[c][1]) /\ Ge(VALID_RANGES[c][2], v)

\* 1900 < v < 2100
YearLike(v) == Gt(v, Whole(1900)) /\ Lt(v, Whole(2100))

\* the call validated an entry named for code c whose value is a number
ValidatesNumberFor(c) ==
    /\ Returned("parseMarker")
    /\ arg.t = "obj"
    /\ "name" \in DOMAIN arg
    /\ arg.name = JStr(CodeName[c])
    /\ arg.value.t \in {"num", "inf"}

\* C2 as stated: for every code, a numeric value is accepted exactly when it lies
\* in the inclusive interval [min, max] of the code: rejected below min and above
\* max, accepted strictly inside and at min and at max.
C2_RangeAloneDecides ==
    \A c \in Codes :
        ValidatesNumberFor(c) => (res.t = "obj" <=> InRange(c, arg.value))

\* C2: for every code, a numeric value is accepted exactly when it lies in the
\* inclusive interval [min, max] of the code and is not year-like (1900 < v < 2100):
\* rejected below min and above max, accepted inside and at min and at max unless
\* year-like, which happens for WBC only, its min 2000 included.
C2_InclusiveRangeExceptYears ==
    \A c \in Codes :
        ValidatesNumberFor(c) =>
            /\ res.t = "obj" <=> (InRange(c, arg.value) /\ ~YearLike(arg.value))
            /\ res.t = "obj" => res.value = arg.value /\ res.code = c
            /\ res.t # "obj" => res = JNull

\* the lower bound of WBC, 2000, is rejected as a year
C2_Witness ==
    /\ ValidatesNumberFor("WBC")
    /\ arg.value = VALID_RANGES["WBC"][1]
    /\ res = JNull

\* C4: a value v with 1900 < v < 2100 is rejected, whatever the code, also when
\* v lies inside the code's plausibility interval.
C4_YearLikeRejected ==
    (/\ Returned("parseMarker")
     /\ arg.t = "obj"
     /\ YearLike(ToNumber(Field(arg, "value")))) => res.t # "obj"

\* a white cell count of 2050 lies in [2000, 30000] and is rejected
C4_Witness ==
    /\ ValidatesNumberFor("WBC")
    /\ arg.value = Whole(2050)
    /\ InRange("WBC", arg.value)
    /\ res = JNull

-----------------------------------------------------------------------------
(* Properties of normalizeCode (labs.js:21-35) *)

\* the rules in their order: the substrings that select a code
CodeRules ==
    << [subs |-> {<<"h", "b", "a", "1", "c">>}, code |-> "HBA1C"],
       [subs |-> {<<"f", "a", "s", "t", "i", "n", "g">>, <<"g", "l", "u", "c", "o", "s", "e">>}, code |-> "GLU"],
       [subs |-> {<<"l", "d", "l">>}, code |-> "LDL"],
       [subs |-> {<<"h", "d", "l">>}, code |-> "HDL"],
       [subs |-> {<<"t", "r", "i", "g">>}, code |-> "TG"],
       [subs |-> {<<"c", "h", "o", "l">>}, code |-> "CHOL"],
       [subs |-> {<<"c", "r", "e", "a", "t">>}, code |-> "CREAT"],
       [subs |-> {<<"t", "s", "h">>}, code |-> "TSH"],
       [subs |-> {<<"h", "b">>}, code |-> "HB"],
       [subs |-> {<<"w", "b", "c">>}, code |-> "WBC"],
       [subs |-> {<<"p", "l", "a", "t", "e">>}, code |-> "PLT"] >>

\* text sub occurs in text s when case is ignored
OccursIgnoringCase(s, sub) ==
    \E i \in 0..(Len(s) - Len(sub)) :
        \A k \in 1..Len(sub) : LowerChar(s[i + k]) = LowerChar(sub[k])

\* the rules that match name
MatchingRules(name) ==
    {i \in 1..Len(CodeRules) : \E sub \in CodeRules[i].subs : OccursIgnoringCase(name, sub)}

\* C5: normalizeCode folds the case of the name and returns the code of the first
\* rule, in the order hba1c, fasting|glucose, ldl, hdl, trig, chol, creat, tsh, hb,
\* wbc, plate, one of whose substrings the name contains; no code when none does.
C5_FirstMatchingRule ==
    Returned("normalizeCode") =>
        IF MatchingRules(arg) = {} THEN res = NoCode
        ELSE \E i \in MatchingRules(arg) :
                /\ \A j \in MatchingRules(arg) : i <= j
                /\ res = CodeRules[i].code

\* a name in upper and lower case that two rules match: the earlier one wins
C5_Witness ==
    /\ Returned("normalizeCode")
    /\ arg = <<"H", "b", "A", "1", "c", "h", "b">>
    /\ {1, 9} \subseteq MatchingRules(arg)
    /\ res = "HBA1C"

-----------------------------------------------------------------------------
(* Properties of parseRefRange (nlp.js:6-18) *)

\* text s without its white space
WithoutSpace(s) == SelectSeq(s, LAMBDA c : c # " ")

\* s is a decimal numeral: digits, or digits, a point and digits
IsNumeral(s) ==
    /\ s # <<>>
    /\ \A i \in 1..Len(s) : s[i] \in Digit \cup {"."}
    /\ Cardinality({i \in 1..Len(s) : s[i] = "."}) <= 1
    /\ s[1] # "." /\ s[Len(s)] # "."

\* the number a numeral denotes: its digits over ten to the count of the digits
\* behind the point
NumeralValue(s) ==
    Num(DigitsVal(SelectSeq(s, LAMBDA c : c # ".")),
        IF \E i \in 1..Len(s) : s[i] = "."
        THEN Len(s) - (CHOOSE i \in 1..Len(s) : s[i] = ".") ELSE 0)

\* the pairs <<a, b>> of numerals with s = a sep b for a separator sep of seps
RangeSplits(s, seps) ==
    {<<SubSeq(s, 1, p[1]), SubSeq(s, p[1] + Len(p[2]) + 1, Len(s))>> :
        p \in {q \in (0..Len(s)) \X seps :
                  /\ q[1] + Len(q[2]) <= Len(s)
                  /\ SubSeq(s, q[1] + 1, q[1] + Len(q[2])) = q[2]
                  /\ IsNumeral(SubSeq(s, 1, q[1]))
                  /\ IsNumeral(SubSeq(s, q[1] + Len(q[2]) + 1, Len(s)))}}

Dashes == {<<"-">>, <<EnDash>>}
Tos == {<<"t", "o">>, <<"t", "O">>, <<"T", "o">>, <<"T", "O">>}

\* what the claim says parseRefRange returns for the text s without white space
ExpectedRange(s) ==
    IF RangeSplits(s, Dashes \cup Tos) # {}
    THEN LET p == CHOOSE q \in RangeSplits(s, Dashes \cup Tos) : TRUE
         IN  Bounds(NumeralValue(p[1]), NumeralValue(p[2]))
    ELSE IF s # <<>> /\ s[1] = "<" /\ IsNumeral(Tail(s))
    THEN Bounds(JNull, NumeralValue(Tail(s)))
    ELSE IF s # <<>> /\ s[1] = ">" /\ IsNumeral(Tail(s))
    THEN Bounds(NumeralValue(Tail(s)), JNull)
    ELSE Bounds(JNull, JNull)

\* C6: parseRefRange is total: for every input, null, non-strings and malformed
\* text included, it returns a pair {low, high}. White space is ignored; "a-b"
\* with a hyphen or an en dash and "a to b" in any case give {a, b}, "<n" gives
\* {null, n}, ">n" gives {n, null}, every other input gives {null, null}.
C6_ParseRefRangeTotal ==
    Returned("parseRefRange") =>
        /\ DOMAIN res = {"low", "high"}
        /\ res.low = JNull \/ res.low.t = "num"
        /\ res.high = JNull \/ res.high.t = "num"
        /\ res = IF arg.t = "str" THEN ExpectedRange(WithoutSpace(arg.s))
                 ELSE Bounds(JNull, JNull)

\* a range written with white space and a to in mixed case
C6_Witness ==
    /\ Returned("parseRefRange")
    /\ arg = JStr(<<"4", ".", "0", " ", "t", "O", " ", "6">>)
    /\ res = Bounds(Whole(4), Whole(6))

-----------------------------------------------------------------------------
(* Properties of computeMarkerStatus (nlp.js:21-32) *)

\* the bounds parsed from the reference range of the marker
ParsedBounds(m) == ExpectedRange(WithoutSpace(StringOf(m.refRange)))

\* the rules of the claim, the first that applies deciding
StatusByRules(m) ==
    IF m.value \in {JUndef, JNull} \/ m.refRange \in {JUndef, JNull}
    THEN Status("unknown", "low")
    ELSE IF ParsedBounds(m) = Bounds(JNull, JNull) THEN Status("unknown", "medium")
    ELSE IF ToNumber(m.value).t = "nan" THEN Status("unknown", "low")
    ELSE IF ParsedBounds(m).high # JNull /\ Gt(ToNumber(m.value), ParsedBounds(m).high)
    THEN Status("high", "high")
    ELSE IF ParsedBounds(m).low # JNull /\ Lt(ToNumber(m.value), ParsedBounds(m).low)
    THEN Status("low", "high")
    ELSE Status("normal", "high")

\* the value of the marker is a number equal to its parsed bound k
AtBound(m, k) ==
    /\ ~(m.value \in {JUndef, JNull} \/ m.refRange \in {JUndef, JNull})
    /\ ParsedBounds(m)[k] # JNull
    /\ ToNumber(m.value) = ParsedBounds(m)[k]

\* C7 as stated: the rules are applied in their order (value or range absent:
\* unknown/low; both bounds null: unknown/medium; value not numeric: unknown/low;
\* value > high: high/high; value < low: low/high; else normal/high), and a value
\* equal to a bound is normal.
C7_BoundAlwaysNormal ==
    Returned("computeMarkerStatus") =>
        /\ res = StatusByRules(arg)
        /\ (AtBound(arg, "low") \/ AtBound(arg, "high")) => res = Status("normal", "high")

\* C7: the rules are applied in their order (value or range absent: unknown/low;
\* both bounds null: unknown/medium; value not numeric: unknown/low; value > high:
\* high/high; value < low: low/high; else normal/high). A value equal to the high
\* bound is never high and a value equal to the low bound is never low: it is
\* normal unless it lies beyond the other bound, which a range with low > high
\* allows.
C7_RulesInOrder ==
    Returned("computeMarkerStatus") =>
        /\ res = StatusByRules(arg)
        /\ AtBound(arg, "high") => res.status # "high"
        /\ AtBound(arg, "low") => res.status # "low"
        /\ \/ AtBound(arg, "low") /\ ~AtBound(arg, "high")
           \/ AtBound(arg, "high") /\ ~AtBound(arg, "low")
           => \/ res = Status("normal", "high")
              \/ /\ ParsedBounds(arg).low # JNull /\ ParsedBounds(arg).high # JNull
                 /\ Gt(ParsedBounds(arg).low, ParsedBounds(arg).high)
        /\ AtBound(arg, "low") /\ AtBound(arg, "high") => res = Status("normal", "high")

\* the value 6 equals the low bound of the range 6-4 and is high
C7_Witness ==
    /\ Returned("computeMarkerStatus")
    /\ arg.value = Whole(6)
    /\ arg.refRange = JStr(<<"6", "-", "4">>)
    /\ AtBound(arg, "low")
    /\ res = Status("high", "high")

-----------------------------------------------------------------------------
(* Properties of applyClinicalWeighting (nlp.js:35-81) *)

\* the four risk fields of a result
RiskOf(r) == Risk(r.severity, r.urgency, r.recommendedRecheckDays, r.immediateAttention)

\* Number(m.value) is a number at least n over 10^d
AtLeast(m, n, d) ==
    ToNumber(m.value).t \in {"num", "inf"} /\ Ge(ToNumber(m.value), Num(n, d))

\* C8: HBA1C with value >= 8.0 is significant/prompt/30/true and with
\* 6.5 <= value < 8.0 moderate/soon/90/false; LDL with value >= 190 is
\* significant/prompt/30/true and with 160 <= value < 190 moderate/soon/90/false:
\* the higher threshold is applied after the lower one and wins, whatever the
\* status of the marker.
C8_ValueThresholds ==
    Returned("applyClinicalWeighting") =>
        /\ arg.code = "HBA1C" /\ AtLeast(arg, 8, 0)
              => RiskOf(res) = Risk("significant", "prompt", 30, TRUE)
        /\ arg.code = "HBA1C" /\ AtLeast(arg, 65, 1) /\ ~AtLeast(arg, 8, 0)
              => RiskOf(res) = Risk("moderate", "soon", 90, FALSE)
        /\ arg.code = "LDL" /\ AtLeast(arg, 190, 0)
              => RiskOf(res) = Risk("significant", "prompt", 30, TRUE)
        /\ arg.code = "LDL" /\ AtLeast(arg, 160, 0) /\ ~AtLeast(arg, 190, 0)
              => RiskOf(res) = Risk("moderate", "soon", 90, FALSE)

\* an HbA1c of 8.5 whose status is normal passes both thresholds and is significant
C8_Witness ==
    /\ Returned("applyClinicalWeighting")
    /\ arg.code = "HBA1C"
    /\ arg.value = Num(85, 1)
    /\ arg.status = "normal"
    /\ RiskOf(res) = Risk("significant", "prompt", 30, TRUE)

\* the outcome the claim gives a code other than HBA1C and LDL
ByCodeAndStatus(code, status) ==
    IF code = "CREAT" /\ status = "high" THEN Risk("significant", "prompt", 7, TRUE)
    ELSE IF code = "HB" /\ status = "low" THEN Risk("moderate", "soon", 30, FALSE)
    ELSE IF code = "WBC" /\ status # "normal" THEN Risk("moderate", "soon", 30, FALSE)
    ELSE IF status \in {"high", "low"} THEN Risk("mild", "routine", 180, FALSE)
    ELSE Risk("none", "routine", 180, FALSE)

\* C9: for a code other than HBA1C and LDL the outcome depends on the code and
\* the status only: CREAT high is significant/prompt/7/true, HB low is
\* moderate/soon/30/false, WBC with a status other than normal (unknown included)
\* is moderate/soon/30/false, and every other pair has the baseline:
\* mild/routine/180/false for high or low, none/routine/180/false for normal or
\* unknown.
C9_CodeAndStatusOnly ==
    (Returned("applyClinicalWeighting") /\ arg.code \notin {"HBA1C", "LDL"}) =>
        RiskOf(res) = ByCodeAndStatus(arg.code, arg.status)

\* a white cell count of unknown status is moderate
C9_Witness ==
    /\ Returned("applyClinicalWeighting")
    /\ arg.code = "WBC"
    /\ arg.status = "unknown"
    /\ RiskOf(res) = Risk("moderate", "soon", 30, FALSE)

-----------------------------------------------------------------------------
(* Properties of the responses of POST /labs/parse and POST /nlp/summary *)

\* the request was answered with status 200 by the handler of endpoint e
Answered200(e) == pc = "responded" /\ endpoint = e /\ resp.status = 200

\* the entries of the marker list the completion returned
AiEntries == data.content.json.markers.items

\* the response marker m is the entry e with its value as a number, unchanged
TakenFrom(m, e) ==
    /\ e.t = "obj"
    /\ m.name = Field(e, "name")
    /\ m.value = ToNumber(Field(e, "value"))

\* C1: every marker of a 200 response of POST /labs/parse has a code of the
\* vocabulary of 11 codes, a numeric value inside the inclusive plausibility
\* interval of that code, flag = null and observedAt = null, and carries the name
\* and the value of an entry the completion returned: an entry that fails is
\* absent, never returned in invalid or corrected form.
C1_OnlyValidatedMarkers ==
    Answered200("/labs/parse") =>
        /\ Cardinality(Codes) = 11
        /\ Len(resp.body.markers) <= Len(AiEntries)
        /\ \A i \in 1..Len(resp.body.markers) :
              /\ resp.body.markers[i].code \in Codes
              /\ resp.body.markers[i].value.t = "num"
              /\ InRange(resp.body.markers[i].code, resp.body.markers[i].value)
              /\ resp.body.markers[i].flag = JNull
              /\ resp.body.markers[i].observedAt = JNull
              /\ \E j \in 1..Len(AiEntries) : TakenFrom(resp.body.markers[i], AiEntries[j])

\* the completion returned a hemoglobin of 25 next to a valid entry: the response
\* has the valid entry only
C1_Witness ==
    /\ Answered200("/labs/parse")
    /\ Len(AiEntries) = 2
    /\ \E j \in 1..2 :
          /\ AiEntries[j].t = "obj"
          /\ Field(AiEntries[j], "name") = JStr(<<"H", "b">>)
          /\ Field(AiEntries[j], "value") = Whole(25)
    /\ Len(resp.body.markers) = 1

\* the response of /nlp/summary that carries the deterministic fields
SummaryAnswered ==
    /\ Answered200("/nlp/summary")
    /\ resp.body.t = "obj"
    /\ "enrichedMarkers" \in DOMAIN resp.body

\* C3: every marker of the enrichedMarkers list of a /nlp/summary response has a
\* code of the vocabulary and a value inside the plausibility interval of that
\* code.
C3_EnrichedMarkersValidated ==
    SummaryAnswered =>
        \A i \in 1..Len(resp.body.enrichedMarkers) :
            /\ resp.body.enrichedMarkers[i].code \in Codes
            /\ resp.body.enrichedMarkers[i].value.t = "num"
            /\ InRange(resp.body.enrichedMarkers[i].code, resp.body.enrichedMarkers[i].value)

\* a hemoglobin of 3, below the interval [4, 20] of HB, is returned to the client
C3_Witness ==
    /\ SummaryAnswered
    /\ \E i \in 1..Len(resp.body.enrichedMarkers) :
          /\ resp.body.enrichedMarkers[i].code = "HB"
          /\ resp.body.enrichedMarkers[i].value = Whole(3)
          /\ ~InRange("HB", resp.body.enrichedMarkers[i].value)

\* the rank of a severity: none < mild < moderate < significant
SeverityRank(sev) ==
    CASE sev = "none" -> 0 [] sev = "mild" -> 1 [] sev = "moderate" -> 2
      [] sev = "significant" -> 3

\* the place of the first marker of ms whose severity rank is maximal
FirstWorst(ms) ==
    CHOOSE k \in 1..Len(ms) :
        /\ \A j \in 1..Len(ms) : SeverityRank(ms[j].severity) <= SeverityRank(ms[k].severity)
        /\ \A j \in 1..(k - 1) : SeverityRank(ms[j].severity) < SeverityRank(ms[k].severity)

\* the lists with the elements of ms in every order
Reorderings(ms) ==
    {[i \in 1..Len(ms) |-> ms[p[i]]] :
        p \in {f \in [1..Len(ms) -> 1..Len(ms)] :
                  \A i, j \in 1..Len(ms) : f[i] = f[j] => i = j}}

-----------------------------------------------------------------------------
(* Properties of the aggregate confidence (nlpController.js:55-57) *)

\* the score of a confidence in tenths: high 1.0, medium 0.7, low 0.4
ScoreTenths(c) == IF c = "high" THEN 10 ELSE IF c = "medium" THEN 7 ELSE 4

RECURSIVE SumTenths(_)
\* the sum of the scores of the markers ms, in tenths
SumTenths(ms) ==
    IF ms = <<>> THEN 0 ELSE ScoreTenths(Head(ms).confidence) + SumTenths(Tail(ms))

\* the bucket of the average of the scores: average >= 0.9 is high, average >= 0.7
\* is medium, otherwise low
BucketOfAverage(ms) ==
    IF SumTenths(ms) >= 9 * Len(ms) THEN "high"
    ELSE IF SumTenths(ms) >= 7 * Len(ms) THEN "medium"
    ELSE "low"

\* C11: the overall confidence of /nlp/summary is the bucket of the average of the
\* scores of the markers (high 1.0, medium 0.7, low 0.4): high when the average is
\* at least 0.9, medium when it is at least 0.7, otherwise low; a list whose
\* markers all have confidence medium yields medium, whatever its length.
C11_BucketOfAverage ==
    SummaryAnswered =>
        resp.body.overallConfidence = BucketOfAverage(resp.body.enrichedMarkers)

\* three markers of confidence medium: the sum 0.7 + 0.7 + 0.7 is
\* 2.0999999999999996 in binary64, its third is below 0.7, the answer is low
C11_Witness ==
    /\ SummaryAnswered
    /\ Len(resp.body.enrichedMarkers) = 3
    /\ \A i \in 1..3 : resp.body.enrichedMarkers[i].confidence = "medium"
    /\ resp.body.overallConfidence = "low"

-----------------------------------------------------------------------------
(* Properties of the safety scan (nlpController.js:74-78) *)

RECURSIVE JsonEntries(_)

\* JSON.stringify of a parsed completion whose texts need no escaping
JsonText(v) ==
    CASE v.t = "null" -> <<"n", "u", "l", "l">>
      [] v.t = "str"  -> <<"\"">> \o v.s \o <<"\"">>
      [] v.t = "bool" -> IF v.b THEN <<"t", "r", "u", "e">> ELSE <<"f", "a", "l", "s", "e">>
      [] v.t = "obj"  -> <<"{">> \o JsonEntries(v.entries) \o <<"}">>
      [] OTHER        -> StringOf(v)

\* the members of an object, separated by commas
JsonEntries(es) ==
    IF es = <<>> THEN <<>>
    ELSE <<"\"">> \o Head(es).key \o <<"\"", ":">> \o JsonText(Head(es).val)
         \o (IF Tail(es) = <<>> THEN <<>> ELSE <<",">> \o JsonEntries(Tail(es)))

BannedPhrases == {<<"p", "r", "e", "s", "c", "r", "i", "b", "e">>, <<"s", "t", "a", "r", "t", " ", "t", "a", "k", "i", "n", "g">>, <<"t", "a", "k", "e", " ", "m", "e", "d", "i", "c", "a", "t", "i", "o", "n">>, <<"d", "i", "a", "g", "n", "o", "s", "e">>, <<"t", "r", "e", "a", "t", "m", "e", "n", "t", " ", "p", "l", "a", "n">>}

\* the text s holds a banned phrase when lower-cased
HoldsBanned(s) == \E k \in BannedPhrases : OccursIgnoringCase(s, k)

\* /nlp/summary answered a request whose completion was parsed as JSON
SummaryParsedReply ==
    /\ pc = "responded"
    /\ endpoint = "/nlp/summary"
    /\ data.kind = "content"
    /\ data.content.kind = "json"

\* a marker of the request holds a banned phrase in its name
RequestHoldsBanned ==
    \E i \in 1..Len(body.markers.items) :
        /\ body.markers.items[i].t = "obj"
        /\ HoldsBanned(body.markers.items[i].name.s)

\* C12: when the parsed AI summary, serialized and lower-cased, contains a banned
\* phrase, /nlp/summary answers UNSAFE_RESPONSE and returns no part of the AI
\* summary; the scan covers the AI output only: a request whose AI summary holds
\* no banned phrase is never answered UNSAFE_RESPONSE, whatever its markers hold.
C12_ScanOfAiOutputOnly ==
    SummaryParsedReply =>
        IF HoldsBanned(JsonText(data.content.json))
        THEN resp = [status |-> 502,
                     body |-> [error |-> [code |-> "UNSAFE_RESPONSE",
                                          message |-> "Unsafe content detected"],
                               rid |-> rid]]
        ELSE /\ resp.status # 502
             /\ "error" \in DOMAIN resp.body => resp.body.error.code # "UNSAFE_RESPONSE"
             /\ data.content.json.t = "obj" /\ RequestHoldsBanned
                   => /\ resp.status = 200
                      /\ \E i \in 1..Len(resp.body.enrichedMarkers) :
                            HoldsBanned(resp.body.enrichedMarkers[i].name.s)

\* a summary that says "We Diagnose diabetes" is rejected
C12_Witness ==
    /\ SummaryParsedReply
    /\ data.content.json.t = "obj"
    /\ \E i \in 1..Len(data.content.json.entries) :
          /\ data.content.json.entries[i].val.t = "str"
          /\ OccursIgnoringCase(data.content.json.entries[i].val.s, <<"D", "i", "a", "g", "n", "o", "s", "e">>)
          /\ ~includes(data.content.json.entries[i].val.s, <<"d", "i", "a", "g", "n", "o", "s", "e">>)
    /\ resp.status = 502
    /\ resp.body.error.code = "UNSAFE_RESPONSE"

-----------------------------------------------------------------------------
(* Properties of the deterministic fields of a /nlp/summary response
   (nlpController.js:80-92) *)

\* the completion passed the checks of the handler: it is present, it is JSON and
\* it holds no banned phrase
PassedChecks == SummaryParsedReply /\ ~HoldsBanned(JsonText(data.content.json))

\* C13: the deterministic fields of a /nlp/summary response do not depend on the
\* AI output: whatever completion passes the checks, enrichedMarkers,
\* overallRecommendation, overallRecheckDays, immediateAttention,
\* overallConfidence, disclaimer and legalNotice are the values the handler
\* computed from the marker list before the call, so two requests with the same
\* list have them identical.
C13_DeterministicFieldsFixed ==
    PassedChecks =>
        /\ resp.status = 200
        /\ resp.body.t = "obj"
        /\ "enrichedMarkers" \in DOMAIN resp.body
        /\ resp.body.enrichedMarkers = locals.enrichedMarkers
        /\ resp.body.overallRecommendation = locals.overallRecommendation
        /\ resp.body.overallRecheckDays = locals.overallRecheckDays
        /\ resp.body.immediateAttention = locals.overallImmediate
        /\ resp.body.overallConfidence = locals.overallConfidence
        /\ resp.body.disclaimer = DISCLAIMER
        /\ resp.body.legalNotice = LEGAL_NOTICE

\* the completion is the JSON text 5: the response is 5, without any of the fields
C13_Witness ==
    /\ PassedChecks
    /\ data.content.json = Whole(5)
    /\ resp = [status |-> 200, body |-> Whole(5)]

-----------------------------------------------------------------------------
(* Properties of the marker list of /labs/parse (labsController.js:50-86) *)

\* /labs/parse answered a request whose completion held a list of markers
LabsListReply ==
    /\ pc = "responded"
    /\ endpoint = "/labs/parse"
    /\ data.kind = "content"
    /\ data.content.kind = "json"
    /\ data.content.json.t = "obj"
    /\ "markers" \in DOMAIN data.content.json
    /\ data.content.json.markers.t = "arr"

\* the code of the first rule that matches the name
FirstCode(name) ==
    CodeRules[CHOOSE i \in MatchingRules(name) : \A j \in MatchingRules(name) : i <= j].code

\* the entry e passes normalization and validation
Passes(e) ==
    /\ e.t = "obj"
    /\ Field(e, "name").t = "str"
    /\ MatchingRules(Field(e, "name").s) # {}
    /\ ToNumber(Field(e, "value")).t = "num"
    /\ InRange(FirstCode(Field(e, "name").s), ToNumber(Field(e, "value")))
    /\ ~YearLike(ToNumber(Field(e, "value")))

\* the passing entries of a list, in its order
PassingEntries(es) == SelectSeq(es, Passes)

\* C14: for every marker list the completion returns to /labs/parse, entries of
\* unexpected shape included, the response is 200 exactly when at least one entry
\* passes normalization and validation, its markers are then the passing entries
\* in the order of the list, and the response is PARSE_FAILED with status 422
\* only when no entry passes.
C14_PassingEntriesReturned ==
    LabsListReply =>
        IF PassingEntries(AiEntries) = <<>>
        THEN /\ resp.status = 422
             /\ resp.body.error.code = "PARSE_FAILED"
        ELSE /\ resp.status = 200
             /\ Len(resp.body.markers) = Len(PassingEntries(AiEntries))
             /\ \A i \in 1..Len(resp.body.markers) :
                   /\ TakenFrom(resp.body.markers[i], PassingEntries(AiEntries)[i])
                   /\ resp.body.markers[i].code =
                         FirstCode(PassingEntries(AiEntries)[i].name.s)

\* the completion returned a valid HbA1c next to a null entry: the answer is 422
C14_Witness ==
    /\ LabsListReply
    /\ Len(AiEntries) = 2
    /\ Passes(AiEntries[1])
    /\ AiEntries[2] = JNull
    /\ resp.status = 422
    /\ resp.body.error.code = "PARSE_FAILED"

-----------------------------------------------------------------------------
(* Properties of the checks on entry to /nlp/summary (nlpController.js:8-12) *)

\* the markers field of the body is missing, not an array or empty
MissingMarkers(b) ==
    \/ IsNullish(b)
    \/ "markers" \notin DOMAIN b
    \/ b.markers = JUndef
    \/ b.markers.t # "arr"
    \/ b.markers.items = <<>>

\* a /nlp/summary request without markers is being handled or has been answered
WithoutMarkers == endpoint = "/nlp/summary" /\ MissingMarkers(body)

\* C15 as stated: a /nlp/summary request whose markers field is missing, not an
\* array or empty is answered with AI_FAILED and status 400, and no completion
\* call is issued for it.
C15_MissingMarkersRejected ==
    WithoutMarkers =>
        /\ pc = "responded"
        /\ calls = 0
        /\ resp = [status |-> 400,
                   body |-> [error |-> [code |-> "AI_FAILED", message |-> "Missing markers"],
                             rid |-> rid]]

\* C15: when the API key is configured, a /nlp/summary request whose markers
\* field is missing, not an array or empty is answered with AI_FAILED and status
\* 400; without the key it is answered with INVALID_KEY and status 500; in both
\* cases no completion call is issued for it.
C15_MissingMarkersRejectedWithKey ==
    WithoutMarkers =>
        /\ pc = "responded"
        /\ calls = 0
        /\ prompt = JUndef
        /\ resp.body.rid = rid
        /\ IF apiKey
           THEN /\ resp.status = 400
                /\ resp.body.error.code = "AI_FAILED"
           ELSE /\ resp.status = 500
                /\ resp.body.error.code = "INVALID_KEY"

\* a body whose markers field is an empty list was answered with 400 AI_FAILED
C15_Witness ==
    /\ WithoutMarkers
    /\ body # JUndef
    /\ body.markers = Arr(<<>>)
    /\ apiKey
    /\ calls = 0
    /\ resp.status = 400
    /\ resp.body.error.code = "AI_FAILED"

-----------------------------------------------------------------------------
(* Properties of the error codes (nlpController.js:59-72, labsController.js:26-86) *)

\* a request was answered after its completion call had settled
AnsweredAfterCompletion == pc = "responded" /\ data.kind # "none"

\* the code of the error response
CodeOfResponse == IF resp.status = 200 THEN "none" ELSE resp.body.error.code

\* C16: on both endpoints the error code names the cause of the failure: an
\* error reported by the completion API gives AI_QUOTA_EXCEEDED when it is a
\* quota error and AI_PROVIDER_ERROR otherwise, an empty or non-JSON completion
\* gives AI_FAILED, and PARSE_FAILED is given only when the completion was
\* usable JSON from which no valid marker was extracted.
C16_CodeNamesCause ==
    AnsweredAfterCompletion =>
        /\ data.kind = "error" =>
              CodeOfResponse = IF data.error.code = "insufficient_quota"
                               THEN "AI_QUOTA_EXCEEDED"
                               ELSE "AI_PROVIDER_ERROR"
        /\ (data.kind = "content" /\ data.content.kind \in {"empty", "nonjson"}) =>
              CodeOfResponse = "AI_FAILED"
        /\ CodeOfResponse = "PARSE_FAILED" =>
              data.kind = "content" /\ data.content.kind = "json"

\* /labs/parse answered a quota error of the completion API with PARSE_FAILED
C16_Witness ==
    /\ AnsweredAfterCompletion
    /\ endpoint = "/labs/parse"
    /\ data.kind = "error"
    /\ data.error.code = "insufficient_quota"
    /\ resp.status = 422
    /\ resp.body.error.code = "PARSE_FAILED"

-----------------------------------------------------------------------------
(* Properties of the completion call (labsController.js:27, nlpController.js:60) *)

\* the completion call failed or returned a completion that cannot be used
CallFailed ==
    \/ data.kind \in {"throw", "error"}
    \/ data.kind = "content" /\ data.content.kind \in {"empty", "nonjson"}

\* the request has ended: with a response, or with the handler's promise rejected
Ended == pc \in {"responded", "unhandled"}

\* at most one call; a failed call ends the request with an error response
OneCallThenError ==
    /\ calls <= 1
    /\ data.kind # "none" => pc = "responded" /\ calls = 1
    /\ (pc = "responded" /\ CallFailed) =>
          /\ resp.status \in 400..599
          /\ DOMAIN resp.body = {"error", "rid"}
          /\ resp.body.rid = rid

\* a call is issued only by a request that has issued none, and nothing follows
\* the end of a request but the next request
NothingFollows ==
    /\ calls' > calls => pc = "idle" /\ calls = 0 /\ pc' = "await"
    /\ Ended => pc' = "idle" /\ calls' = 0 /\ resp' = NoResponse

-----------------------------------------------------------------------------
(* Properties of the error responses (errorResponse.js:2-4, index.js) *)

\* the service answered the request with an error
ErrorEmitted == pc = "responded" /\ resp.status # 200

\* C18: every error response the service emits, the 404, the 500 and the
\* rate-limit 429 included, has the shape {error: {code, message}, rid} where
\* rid is the request id assigned to that request.
C18_ErrorShape ==
    ErrorEmitted =>
        /\ DOMAIN resp.body = {"error", "rid"}
        /\ DOMAIN resp.body.error = {"code", "message"}
        /\ rid \in RIDs
        /\ resp.body.rid = rid

\* the limiter answered 429 with a body that has no rid
C18_Witness ==
    /\ ErrorEmitted
    /\ hits = max
    /\ resp.status = 429
    /\ resp.body.error.code = "RATE_LIMIT_EXCEEDED"
    /\ DOMAIN resp.body = {"error"}

-----------------------------------------------------------------------------
(* Properties of /labs/parse after a failed extraction (labsController.js:83-86) *)

\* the extraction by the completion failed or yielded no valid marker
ExtractionFailed ==
    /\ pc = "responded"
    /\ endpoint = "/labs/parse"
    /\ data.kind # "none"
    /\ ~(LabsListReply /\ PassingEntries(AiEntries) # <<>>)

\* the text s holds the name of a marker followed by a space and a digit, which
\* a parser that matches names and numbers in the text finds
NameThenNumber(s) ==
    \E i \in 2..(Len(s) - 1) :
        /\ s[i] = " "
        /\ s[i + 1] \in Digit
        /\ \E a \in 1..(i - 1) :
              /\ \A k \in a..(i - 1) : s[k] # " "
              /\ normalizeCode(SubSeq(s, a, i - 1)) # NoCode

\* C19: when the extraction by the completion fails or yields no valid marker,
\* /labs/parse falls back to a parser over the text and answers 200 with the
\* markers it finds; PARSE_FAILED is returned only when the text holds no marker
\* for that parser either.
C19_FallbackParser ==
    (ExtractionFailed /\ NameThenNumber(locals.cleanText.s)) =>
        /\ resp.status = 200
        /\ resp.body.markers # <<>>

\* the completion call was rejected for a text that names HbA1c with its value,
\* and the answer is PARSE_FAILED
C19_Witness ==
    /\ ExtractionFailed
    /\ data.kind = "throw"
    /\ locals.cleanText.s = <<"H", "b", "A", "1", "c", " ", "7", ".", "2", " ", "L", "D", "L", " ", "1", ".", "5", ",", "0">>
    /\ NameThenNumber(locals.cleanText.s)
    /\ resp.status = 422
    /\ resp.body.error.code = "PARSE_FAILED"

-----------------------------------------------------------------------------
(* Properties of the deterministic pipeline across requests
   (nlpController.js:21-57, labs.js:21-35) *)

\* normalization, status, weighting and aggregation run now on the raw list ms
Rerun(ms) ==
    [enrichedMarkers |-> [i \in 1..Len(ms) |-> enrich(ms[i])],
     overallRecommendation |-> overall([i \in 1..Len(ms) |-> enrich(ms[i])]).recommendation,
     overallRecheckDays |-> overall([i \in 1..Len(ms) |-> enrich(ms[i])]).recheckDays,
     overallImmediate |-> overall([i \in 1..Len(ms) |-> enrich(ms[i])]).immediate,
     overallConfidence |-> overallConfidence([i \in 1..Len(ms) |-> enrich(ms[i])])]

\* the output out is what the pipeline yields now for the markers of the body
SameAsRerun(out) ==
    /\ out.enrichedMarkers = Rerun(body.markers.items).enrichedMarkers
    /\ out.overallRecommendation = Rerun(body.markers.items).overallRecommendation
    /\ out.overallRecheckDays = Rerun(body.markers.items).overallRecheckDays
    /\ out.overallConfidence = Rerun(body.markers.items).overallConfidence

-----------------------------------------------------------------------------
(* Properties of /ocr/extract requests side by side (ocr.js:22-82) *)

\* the result entry of the file f when no other request is in progress
AloneEntry(f) ==
    IF f.mimetype \notin allowed THEN unsupportedEntry(f)
    ELSE IF f.mimetype # "application/pdf" THEN imageEntry(f, runTesseract(PageImage(f)))
    ELSE IF ~f.parses THEN failedEntry(f, "Unable to extract text")
    ELSE IF f.layer > 0 THEN pdfEntry(f, Txt(f.layer, f.originalname, "pdf-parse"))
    ELSE IF ~f.raster THEN pdfEntry(f, EmptyText)
    ELSE pdfEntry(f, combine(EmptyText, runTesseract(PageImage(f))))

\* the response to the files fs of slot j when no other request is in progress
AloneResponse(j, fs) ==
    IF fs = <<>> \/ pdfCount(fs) > 1 \/ imageCount(fs) > 6
    THEN extractStart(j, fs).resp
    ELSE jsonResponse([files |-> [k \in 1..Len(fs) |-> AloneEntry(fs[k])]])

\* C21: under every interleaving of two /ocr/extract requests, conversions of
\* two PDFs started in the same millisecond included, each request gets the
\* response it would get if it ran alone.
C21_ResponseAsAlone ==
    \A j \in Slots :
        jobs[j].pc = "done" => jobs[j].resp = AloneResponse(j, jobs[j].files)

\* the request for scan-short.pdf was answered with the text of scan-long.pdf,
\* which the other request uploaded
C21_Witness ==
    \E j \in Slots :
        /\ jobs[j].pc = "done"
        /\ jobs[j].files[1].originalname = "scan-short.pdf"
        /\ jobs[j].resp.status = 200
        /\ "text" \in DOMAIN jobs[j].resp.body.files[1]
        /\ jobs[j].resp.body.files[1].text.from = <<"scan-long.pdf", "tesseract">>

-----------------------------------------------------------------------------
(* Properties of the uploaded files (ocrController.js:7-94) *)

\* the files uploaded with the request of slot j that are still on the disk
LeftOnDisk(j) == {k \in 1..Len(jobs[j].files) : PathOf(j, k) \in disk.uploads}

\* C22: when /ocr/extract has sent its response, every temp file uploaded with
\* the request has been deleted, on every path: success, OCR failure of a file,
\* unsupported file type, too many PDFs and too many images.
C22_UploadsDeleted ==
    jobs[1].pc = "done" => LeftOnDisk(1) = {}

\* the request with two PDFs was rejected and both files are still on the disk
C22_Witness ==
    /\ jobs[1].pc = "done"
    /\ pdfCount(jobs[1].files) = 2
    /\ jobs[1].resp.status = 400
    /\ jobs[1].resp.body.error.message = "Maximum 1 PDF allowed"
    /\ LeftOnDisk(1) = {1, 2}

-----------------------------------------------------------------------------
(* Properties of the rate limiter (index.js:173-194) *)

\* the limit the documentation states: 10 requests per minute per IP
DocumentedMax == 10

\* a step in which the request that arrives is answered with 429
Refused == pc = "idle" /\ pc' = "responded" /\ resp'.status = 429

\* a step in which the request that arrives passes the limiter
Passed == pc = "idle" /\ pc' # "idle" /\ hits' = hits + 1

\* C23: within a one-minute window the first 10 requests of an address are
\* admitted and every further request is answered with 429; after the window
\* resets requests are admitted again.
C23_TenPerWindow ==
    [][/\ Refused => hits >= DocumentedMax
       /\ Passed => hits < DocumentedMax
       /\ (pc = "idle" /\ pc' # "idle" /\ hits < DocumentedMax) => resp'.status # 429]_vars

\* the seventh request of the window was answered with 429
C23_Witness ==
    /\ pc = "responded"
    /\ resp.status = 429
    /\ hits = 6
    /\ hits < DocumentedMax

-----------------------------------------------------------------------------
(* Properties of the handlers against the original index.js
   (src/unnamed/part_001:280-715) *)

-----------------------------------------------------------------------------
(* Properties of a completion call that does not return (labs.js:38-93,
   nlp.js:117-135) *)

\* C25: each completion call has a timeout: a /labs/parse or /nlp/summary request
\* whose completion call never returns is still answered in the end.
C25_CallTimesOut == (pc = "await") ~> (pc = "responded")

\* a request waits for its completion call
C25_Witness ==
    /\ pc = "await"
    /\ calls = 1
    /\ resp = NoResponse
    /\ data.kind = "none"

-----------------------------------------------------------------------------
(* Properties of the result entries of /ocr/extract (ocrController.js:36-80) *)

\* /ocr/extract answered with result entries
Extracted == jobs[1].pc = "done" /\ jobs[1].resp.status = 200

\* extraction ran on f without a failure of an engine and found no text
NoTextFound(f) ==
    /\ f.mimetype \in allowed
    /\ f.ocr
    /\ f.scan = 0
    /\ f.mimetype = "application/pdf" => f.parses /\ f.layer = 0 /\ f.raster

\* an engine failed on f: pdf-parse, Ghostscript or Tesseract
EngineFailed(f) ==
    /\ f.mimetype \in allowed
    /\ IF f.mimetype = "application/pdf"
       THEN ~f.parses \/ (f.layer = 0 /\ (~f.raster \/ ~f.ocr))
       ELSE ~f.ocr

\* a result entry without the name of its file
Shape(e) == [x \in DOMAIN e \ {"originalname"} |-> e[x]]

\* the entries the handler gives to the files an engine fails on
FailureShapes == {Shape(AloneEntry(f)) : f \in {g \in FilePool : EngineFailed(g)}}

\* C26: the result entry of a file in which extraction found no text differs
\* from every entry given to a file on which an engine failed.
C26_NoTextIsNoFailure ==
    Extracted =>
        \A k \in 1..Len(jobs[1].files) :
            NoTextFound(jobs[1].files[k]) =>
                Shape(jobs[1].resp.body.files[k]) \notin FailureShapes

\* the PDF of blank pages got the entry that a PDF Ghostscript fails on gets
C26_Witness ==
    /\ Extracted
    /\ jobs[1].files[1].originalname = "scan-blank.pdf"
    /\ NoTextFound(jobs[1].files[1])
    /\ jobs[1].resp.body.files[1].code = "OCR_FAILED"
    /\ Shape(jobs[1].resp.body.files[1])
          = Shape(AloneEntry(PdfFile("scan-locked.pdf", TRUE, 0, FALSE, TRUE, 100)))

\* the result entries of PDFs that carry a text
PdfTexts ==
    {k \in 1..Len(jobs[1].files) :
        /\ jobs[1].files[k].mimetype = "application/pdf"
        /\ "text" \in DOMAIN jobs[1].resp.body.files[k]}

\* C27: meta.engine of a PDF's entry names the engine its text came from:
\* 'pdf-parse' for the text layer, 'tesseract' for rasterization and OCR.
C27_EngineNamesSource ==
    Extracted =>
        \A k \in PdfTexts :
            jobs[1].resp.body.files[k].meta.engine
                = jobs[1].resp.body.files[k].text.from[2]

\* a scanned PDF whose OCR text is longer than 100 characters is answered with
\* engine 'pdf-parse'
C27_Witness ==
    /\ Extracted
    /\ 1 \in PdfTexts
    /\ jobs[1].files[1].layer = 0
    /\ jobs[1].resp.body.files[1].text.from = <<jobs[1].files[1].originalname, "tesseract">>
    /\ jobs[1].resp.body.files[1].text.len > 100
    /\ jobs[1].resp.body.files[1].meta.engine = "pdf-parse"

-----------------------------------------------------------------------------
(* Every request is answered (nlpController.js:5-98, labsController.js:5-87) *)

\* the response is a success or an error of the shared shape
OneResponse ==
    /\ resp.status \in 200..599
    /\ resp.status # 200 => DOMAIN resp.body = {"error", "rid"}

\* C28: a /labs/parse or /nlp/summary request that has come to its end has got
\* one response, a success or an error of the shared shape, whatever the shape of
\* the entries of its marker list; no request ends unanswered.
C28_EveryRequestAnswered == Ended => OneResponse

\* a /nlp/summary request with a null entry in its marker list has ended and
\* nothing was sent
C28_Witness ==
    /\ pc = "unhandled"
    /\ endpoint = "/nlp/summary"
    /\ body.markers.t = "arr"
    /\ \E i \in 1..Len(body.markers.items) : body.markers.items[i] = JNull
    /\ resp = NoResponse
    /\ calls = 0

-----------------------------------------------------------------------------
(* The fields of a weighting agree with each other (nlp.js:35-81) *)

\* C29: in the result of applyClinicalWeighting, immediateAttention is true
\* exactly when the severity is significant and exactly when the urgency is
\* prompt; the severity is moderate exactly when the urgency is soon; the
\* severities none and mild go exactly with urgency routine and with a recheck
\* after 180 days; the recheck is after 7, 30, 90 or 180 days; and any two
\* markers weighted to the same severity get the same color and icon.
C29_WeightingConsistent ==
    Returned("applyClinicalWeighting") =>
        /\ res.immediateAttention \in BOOLEAN
        /\ res.immediateAttention <=> res.severity = "significant"
        /\ res.severity = "significant" <=> res.urgency = "prompt"
        /\ res.severity = "moderate" <=> res.urgency = "soon"
        /\ res.severity \in {"none", "mild"} <=> res.urgency = "routine"
        /\ res.severity \in {"none", "mild"} <=> res.recommendedRecheckDays = 180
        /\ res.severity \in {"none", "mild", "moderate", "significant"}
        /\ res.recommendedRecheckDays \in {7, 30, 90, 180}
        /\ \A m \in WeightInputs :
              applyClinicalWeighting(m).severity = res.severity
                  => applyClinicalWeighting(m).ui = res.ui

\* an HbA1c of 8 or more, first weighted moderate by line 45 and then significant
\* by line 46
C29_Witness ==
    /\ Returned("applyClinicalWeighting")
    /\ arg.code = "HBA1C"
    /\ ValueGe(arg, Whole(8))
    /\ res.severity = "significant"
    /\ res.immediateAttention
    /\ res.recommendedRecheckDays = 30

-----------------------------------------------------------------------------
(* The overall flag of /nlp/summary (nlpController.js:38-53, 83) *)

\* the body of the response carries immediateAttention = true
FlaggedOverall ==
    /\ resp.body.t = "obj"
    /\ "immediateAttention" \in DOMAIN resp.body
    /\ resp.body.immediateAttention = TRUE

\* a marker of the enrichedMarkers of the response carries immediateAttention = true
FlaggedMarker ==
    /\ resp.body.t = "obj"
    /\ "enrichedMarkers" \in DOMAIN resp.body
    /\ \E i \in 1..Len(resp.body.enrichedMarkers) :
          resp.body.enrichedMarkers[i].immediateAttention = TRUE

\* C30: in a 200 response of POST /nlp/summary the top-level immediateAttention
\* is true exactly when at least one marker of enrichedMarkers has
\* immediateAttention true.
C30_OverallFlagIffMarkerFlag ==
    Answered200("/nlp/summary") => (FlaggedOverall <=> FlaggedMarker)

\* the marker that needs attention is not the first of the list
C30_Witness ==
    /\ SummaryAnswered
    /\ Len(resp.body.enrichedMarkers) >= 2
    /\ resp.body.enrichedMarkers[1].immediateAttention = FALSE
    /\ FlaggedMarker
    /\ FlaggedOverall

====
